---- MODULE Spec2Model ----
(***************************************************************************)
(* bluelink: the chat core of pkg/firebase (room lifecycle, message and    *)
(* presence synchronizers, crypto codec) over a remote hierarchical store. *)
(*                                                                         *)
(* Strings that the code builds or transforms (message texts, ciphertext   *)
(* blobs) are sequences of string tokens, so that fmt.Sprintf, encrypt and *)
(* decrypt are computed and never the identity.  A store-assigned message  *)
(* key is the position of the record in the room's append-only collection. *)
(***************************************************************************)
EXTENDS Integers, Sequences, FiniteSets, TLC

VARIABLES
    now,              \* time.Now().Unix(), seconds
    messages,         \* rooms/{roomID}/messages: roomID -> sequence of Message (key = index)
    participants,     \* rooms/{roomID}/participants: roomID -> [userID -> Participant]
    pc,               \* per client process: the store call its current operation is at
    local,            \* per client process: the operation's arguments and locals
    ret,              \* the last return of an operation: [userID, op, roomID, err]
    main,             \* per client process: main's position, its roomID, roomExists and the exit code
    msgPc,            \* ListenForMessages goroutine: "off", "seed", "poll", "send"
    lastTimestamp,    \* ListenForMessages: watermark
    processedMsgIDs,  \* ListenForMessages: dedup key set
    orderedMsgs,      \* ListenForMessages: the sorted batch still to be sent
    maxTimestamp,     \* ListenForMessages: maximum timestamp of the running poll
    msgChan,          \* history of the sends on msgChan, in order: [id, msg]
    atStart,          \* keys in the room when ListenForMessages was called (history)
    atSeed,           \* keys in the room at the seeding fetch (history)
    resets,           \* number of times processedMsgIDs was replaced (history, capped)
    outage,           \* the fetch of the synchronizer's last poll failed (history)
    partPc,           \* ListenForParticipants goroutine: "off", "poll", "send"
    lastUpdate,       \* ListenForParticipants: recorded maximum lastActive
    partPending,      \* ListenForParticipants: snapshot being sent on partChan
    partChan,         \* last send on partChan: [n, snapshot, store] (n capped)
    written,          \* userIDs whose record in ChatRoom a write changed since the last successful presence poll (history)
    removed,          \* userIDs whose record in ChatRoom a Delete removed since the last successful presence poll (history)
    initial,          \* the last return of GetInitialMessages: [roomID, err, msgs]
    codec,            \* the codec at work on one blob: [plain, roomID, blob, out]
    ui                \* the bubbletea program of ChatModel: [receivers, shown]

vars == <<now, messages, participants, pc, local, ret, main, msgPc, lastTimestamp,
          processedMsgIDs, orderedMsgs, maxTimestamp, msgChan, atStart, atSeed,
          resets, outage, partPc, lastUpdate, partPending, partChan, written,
          removed, initial, codec, ui>>

storeVars == <<messages, participants>>
procVars == <<pc, local, ret, main>>
msgVars == <<msgPc, lastTimestamp, processedMsgIDs, orderedMsgs, maxTimestamp,
             msgChan, atStart, atSeed, resets, outage>>
partVars == <<partPc, lastUpdate, partPending, partChan>>
readVars == <<initial, codec, ui>>

(***************************************************************************)
(* Bounds of the model.                                                    *)
(***************************************************************************)
MaxTime == 2          \* the clock runs over 1..MaxTime
MaxMsgs == 3          \* message records per room
MaxResets == 1        \* cap of the resets history counter
MaxSnapshots == 2     \* cap of the partChan send counter
MaxTextLen == 2       \* tokens of a plaintext given to the codec

Users == {"u1", "u2"}              \* client processes, one userID each
Callers == Users \cup {"system"}   \* userID arguments the operations are called with
Procs == Callers \cup {"u1b"}      \* all processes: "u1b" is a second process with u1's config file

\* cfg.UserID of a process
UserID(p) == IF p = "u1b" THEN "u1" ELSE p
RoomIds == {"r1", "r2"}            \* room identifiers in play
ChatRoom == "r1"                   \* the room the session's synchronizers listen to
Texts == {<<"hi">>}                \* plaintexts typed by users

\* cfg.Username and cfg.Color, loaded once and passed by value into every call
Username(u) == IF UserID(u) = "u1" THEN "Alice" ELSE IF u = "u2" THEN "Bob" ELSE "Carol"
UserColor(u) == IF UserID(u) = "u1" THEN "#ff0000" ELSE "#00ff00"

(***************************************************************************)
(* The dedup set is replaced when it holds more than this many keys.  The  *)
(* code's limit is 1000; the model scales it so that the reset happens     *)
(* within MaxMsgs records.                                                 *)
(***************************************************************************)
ProcessedLimit == 2

(***************************************************************************)
(* Data model                                                              *)
(***************************************************************************)
Message(sender, senderID, color, text, timestamp) ==
    [sender |-> sender, senderId |-> senderID, color |-> color,
     text |-> text, timestamp |-> timestamp]

Participant(name, color, lastActive) ==
    [name |-> name, color |-> color, lastActive |-> lastActive]

\* The message every lifecycle operation pushes: Sender "System", SenderID "system"
SystemMessage(username, event, timestamp) ==
    Message("System", "system", "#888888", <<username, event>>, timestamp)

\* a stored value that json cannot decode into a Message: a string where an object is expected
MalformedRecord == [raw |-> "not a message"]

Decodable(record) == "timestamp" \in DOMAIN record

(***************************************************************************)
(* Crypto codec                                                            *)
(***************************************************************************)
NonceSize == 2      \* tokens of a nonce in the model (gcm.NonceSize() bytes in the code)

deriveKey(roomID) == <<"sha256", roomID>>

\* gcm.Seal, mutated: no tag is appended
SealUntagged(key, nonce, text) == nonce \o text

\* gcm.Seal(nonce, nonce, text, nil): the nonce, the ciphertext, then the tag,
\* which authenticates key, nonce and ciphertext
Seal(key, nonce, text) == nonce \o text \o <<"tag">> \o key \o nonce \o text

\* encrypt, mutated: the text is returned as it came
encryptNothing(text, roomID) == text

\* encrypt, mutated: the nonce is taken from the plaintext before the room key
encryptNonceFromText(text, roomID) ==
    LET key == deriveKey(roomID)
        nonce == SubSeq(text \o deriveKey(roomID), 1, NonceSize)
    IN  <<"base64">> \o Seal(key, nonce, text)

encrypt(text, roomID) ==
    LET key == deriveKey(roomID)
        nonce == SubSeq(deriveKey(roomID), 1, NonceSize)
    IN  <<"base64">> \o Seal(key, nonce, text)

\* gcm.Open, mutated: the tag is not verified
OpenUnchecked(key, nonce, sealed) == [err |-> "nil", text |-> sealed]

\* gcm.Open(nil, nonce, sealed, nil): the plaintext if the tag verifies
Open(key, nonce, sealed) ==
    LET n2 == Len(sealed) - 1 - Len(key) - Len(nonce)
        n == n2 \div 2
        text == SubSeq(sealed, 1, n)
    IN  IF n2 >= 0 /\ n2 % 2 = 0 /\ sealed = text \o <<"tag">> \o key \o nonce \o text
        THEN [err |-> "nil", text |-> text]
        ELSE [err |-> "failed to decrypt", text |-> <<>>]

decrypt(encryptedText, roomID) ==
    LET key == deriveKey(roomID)
    IN  IF Len(encryptedText) = 0 \/ Head(encryptedText) /= "base64"
        THEN [err |-> "failed to decode base64", text |-> <<>>]
        ELSE LET ciphertext == Tail(encryptedText)
             IN  IF Len(ciphertext) < NonceSize
                 THEN [err |-> "ciphertext too short", text |-> <<>>]
                 ELSE Open(key, SubSeq(ciphertext, 1, NonceSize),
                           SubSeq(ciphertext, NonceSize + 1, Len(ciphertext)))

FailedToDecrypt == <<"[Failed to decrypt message]">>

decryptMessageTextKept(msg, roomID) ==
    IF msg.senderId = "system" THEN msg
    ELSE LET d == decrypt(msg.text, roomID)
         IN  IF d.err /= "nil" THEN msg ELSE [msg EXCEPT !.text = d.text]

decryptMessage(msg, roomID) ==
    IF msg.senderId = "system" THEN msg
    ELSE LET d == decrypt(msg.text, roomID)
         IN  IF d.err /= "nil"
             THEN [msg EXCEPT !.text = FailedToDecrypt]
             ELSE [msg EXCEPT !.text = d.text]

\* Blobs in the store that are no output of encrypt for the room they are in
CorruptTexts == {<<"not-base64">>, <<"base64", "sha256">>,
                 encrypt(<<"hi">>, "r2")}

(***************************************************************************)
(* The codec on its own: a plaintext and a room are given, encrypt makes   *)
(* the blob, the blob may be damaged on its way, decrypt reads it for a    *)
(* room.                                                                   *)
(***************************************************************************)
Tokens == {"hi", "yo"}

\* the plaintexts given to encrypt: every token string of up to MaxTextLen tokens
Plaintexts == UNION {[1..n -> Tokens] : n \in 0..MaxTextLen}

NoOut == [err |-> "", text |-> <<>>]          \* decrypt has not returned

NoCall == [plain |-> <<>>, roomID |-> "", blob |-> <<>>]     \* no earlier call of encrypt

\* the codec's calls: the last call of encrypt and its return (blob), the call
\* of encrypt before that one (prev), the last call of decrypt and its return
CodecOff == [plain |-> <<>>, roomID |-> "", blob |-> <<>>, readRoom |-> "", out |-> NoOut,
             prev |-> NoCall]

\* a nonce other than the one encrypt derives from the room
OtherNonce == <<"n1", "n2">>

\* what can reach decrypt in place of blob: the base64 armour broken, the blob
\* cut short, one byte changed, or a sealing under the room's key made with
\* another nonce
Damaged(blob, plain, roomID) ==
    IF blob = <<>> THEN {}
    ELSE {Tail(blob)}
            \cup {SubSeq(blob, 1, k) : k \in 0..(Len(blob) - 1)}
            \cup {[blob EXCEPT ![i] = "x"] : i \in 2..Len(blob)}
            \cup {<<"base64">> \o Seal(deriveKey(roomID), OtherNonce, plain)}

CodecEncrypt ==
    /\ codec.blob = <<>>
    /\ codec.out = NoOut
    /\ codec.roomID /= ""
    /\ codec' = [codec EXCEPT !.blob = encrypt(codec.plain, codec.roomID)]
    /\ UNCHANGED <<now, storeVars, procVars, msgVars, partVars, written, removed, initial, ui>>

\* a further call of encrypt, as each SendMessage makes one
CodecEncryptAgain(text, roomID) ==
    /\ codec.blob /= <<>>
    /\ codec.out = NoOut
    /\ codec.prev = NoCall
    /\ codec' = [codec EXCEPT !.prev = [plain |-> codec.plain, roomID |-> codec.roomID,
                                         blob |-> codec.blob],
                              !.plain = text, !.roomID = roomID,
                              !.blob = encrypt(text, roomID)]
    /\ UNCHANGED <<now, storeVars, procVars, msgVars, partVars, written, removed, initial, ui>>

CodecDamage(b) ==
    /\ codec.blob = encrypt(codec.plain, codec.roomID)
    /\ codec.out = NoOut
    /\ codec.roomID /= ""
    /\ b \in Damaged(codec.blob, codec.plain, codec.roomID)
    /\ codec' = [codec EXCEPT !.blob = b]
    /\ UNCHANGED <<now, storeVars, procVars, msgVars, partVars, written, removed, initial, ui>>

CodecDecrypt(roomID) ==
    /\ codec.blob /= <<>>
    /\ codec.out = NoOut
    /\ codec' = [codec EXCEPT !.readRoom = roomID, !.out = decrypt(codec.blob, roomID)]
    /\ UNCHANGED <<now, storeVars, procVars, msgVars, partVars, written, removed, initial, ui>>

(***************************************************************************)
(* Remote store: Get of an absent path yields nil data and no error (the   *)
(* code tests roomData == nil after err == nil); a call fails only for     *)
(* connectivity, which the parameter ok of each step decides.              *)
(***************************************************************************)
NoUser == [name |-> "", color |-> "", lastActive |-> 0]   \* zero value of Participant

\* the room check, mutated: only participant records count
RoomHasParticipants(roomID) == DOMAIN participants[roomID] /= {}

\* the room check, mutated: every room passes
AnyRoom(roomID) == TRUE

RoomHasData(roomID) ==
    messages[roomID] /= <<>> \/ DOMAIN participants[roomID] /= {}

\* Ref.Set, mutated: a record that is there is not written over
SetIfAbsent(roomID, userID, p) ==
    [participants EXCEPT ![roomID] =
        [x \in DOMAIN participants[roomID] \cup {userID} |->
            IF x \in DOMAIN participants[roomID] THEN participants[roomID][x] ELSE p]]

\* Ref.Set(participant) at participants/userID
SetParticipant(roomID, userID, p) ==
    [participants EXCEPT ![roomID] =
        [x \in DOMAIN participants[roomID] \cup {userID} |->
            IF x = userID THEN p ELSE participants[roomID][x]]]

\* Ref.Update, mutated: the record is written whole, as Ref.Set does
SetLastActiveOnly(roomID, userID, t) ==
    SetParticipant(roomID, userID, [NoUser EXCEPT !.lastActive = t])

\* Ref.Update({"lastActive": t}) at participants/userID: merges the field, creating the node
UpdateLastActive(roomID, userID, t) ==
    SetParticipant(roomID, userID,
        IF userID \in DOMAIN participants[roomID]
        THEN [participants[roomID][userID] EXCEPT !.lastActive = t]
        ELSE [NoUser EXCEPT !.lastActive = t])

\* Ref.Delete, mutated: the node stays
DeleteNothing(roomID, userID) == participants

\* Ref.Delete() at participants/userID
DeleteParticipant(roomID, userID) ==
    [participants EXCEPT ![roomID] =
        [x \in DOMAIN participants[roomID] \ {userID} |-> participants[roomID][x]]]

\* Ref.Push, mutated: the newest record is written over
PushOverLast(roomID, msg) ==
    [messages EXCEPT ![roomID] = IF @ = <<>> THEN <<msg>> ELSE [@ EXCEPT ![Len(@)] = msg]]

\* Ref.Push(msg) at messages: a new key after all existing ones
PushMessage(roomID, msg) ==
    [messages EXCEPT ![roomID] = Append(@, msg)]

\* history: participant records of ChatRoom changed by a write since the last
\* successful presence poll; new is the participant collection after the write
NoteWrite(roomID, userID, new) ==
    IF roomID = ChatRoom /\ partPc /= "off" /\ new[roomID] /= participants[roomID]
    THEN written \cup {userID} ELSE written

NoteDelete(roomID, userID) ==
    IF roomID = ChatRoom THEN written \ {userID} ELSE written

\* history: participant records of ChatRoom removed by a Delete since the last
\* successful presence poll
NoteRemoval(roomID, userID) ==
    IF roomID = ChatRoom /\ partPc /= "off" /\ userID \in DOMAIN participants[roomID]
    THEN removed \cup {userID} ELSE removed

(***************************************************************************)
(* Client processes: one operation at a time, one step per store call.     *)
(***************************************************************************)
Idle == [roomID |-> "", name |-> "", text |-> <<>>]

PrePush == {"CreateRoom:Push", "CreateRoomWithID:Push", "JoinRoom:Set", "JoinRoom:Push",
            "LeaveRoom:Push"}

\* bound: the store takes at most MaxMsgs message records, counting the pushes still to come
RECURSIVE Stored(_)
Stored(rooms) ==
    IF rooms = {} THEN 0
    ELSE LET r == CHOOSE x \in rooms : TRUE
         IN  Len(messages[r]) + Stored(rooms \ {r})

RoomOpen(roomID) ==
    Stored(RoomIds) + Cardinality({v \in Procs : pc[v] \in PrePush}) < MaxMsgs

\* main of a process that was not started: its client is driven call by call
MainOff == [at |-> "off", roomID |-> "", roomExists |-> FALSE, exit |-> -1]

\* os.Exit(code)
Exit(m, code) == [m EXCEPT !.at = "exited", !.exit = code]

\* main's reaction to a return, mutated: errors are not looked at
AfterUnchecked(u, op, roomID, err) ==
    LET m == main[u]
    IN  IF m.at = "create" /\ op = "CreateRoomWithID" THEN [m EXCEPT !.at = "ui"]
        ELSE IF m.at = "newroom" /\ op = "CreateRoom"
        THEN [m EXCEPT !.at = "ui", !.roomID = roomID]
        ELSE IF m.at = "ui" /\ op = "JoinRoom" THEN [m EXCEPT !.at = "running"]
        ELSE IF m.at = "running" /\ op = "LeaveRoom" THEN Exit(m, 0)
        ELSE m

\* what main does with the return of the call it waits for: after
\* CreateRoomWithID or CreateRoom it goes on to NewChatUI or exits with 1, after
\* the JoinRoom of NewChatUI the UI runs or main exits with 1, after the
\* LeaveRoom of a quit it exits with 0 whatever LeaveRoom returned
After(u, op, roomID, err) ==
    LET m == main[u]
    IN  IF m.at = "create" /\ op = "CreateRoomWithID"
        THEN IF err = "nil" THEN [m EXCEPT !.at = "ui"] ELSE Exit(m, 1)
        ELSE IF m.at = "newroom" /\ op = "CreateRoom"
        THEN IF err = "nil" THEN [m EXCEPT !.at = "ui", !.roomID = roomID] ELSE Exit(m, 1)
        ELSE IF m.at = "ui" /\ op = "JoinRoom"
        THEN IF err = "nil" THEN [m EXCEPT !.at = "running"] ELSE Exit(m, 1)
        ELSE IF m.at = "running" /\ op = "LeaveRoom"
        THEN Exit(m, 0)
        ELSE m

Return(u, op, roomID, err) ==
    /\ pc' = [pc EXCEPT ![u] = "idle"]
    /\ local' = [local EXCEPT ![u] = Idle]
    /\ ret' = [userID |-> UserID(u), op |-> op, roomID |-> roomID, err |-> err]
    /\ main' = [main EXCEPT ![u] = After(u, op, roomID, err)]

Goto(u, label, roomID, name) ==
    /\ pc' = [pc EXCEPT ![u] = label]
    /\ local' = [local EXCEPT ![u] = [roomID |-> roomID, name |-> name, text |-> <<>>]]
    /\ UNCHANGED <<ret, main>>

Tick ==
    /\ now < MaxTime
    /\ now' = now + 1
    /\ UNCHANGED <<storeVars, procVars, msgVars, partVars, written, removed, readVars>>

\* CreateRoom: roomID is what rand.Intn yields; Set of the creator's record
CreateRoom(u, roomID, ok) ==
    /\ pc[u] = "idle"
    /\ RoomOpen(roomID)
    /\ IF ok
       THEN /\ participants' = SetParticipant(roomID, UserID(u),
                                  Participant(Username(u), UserColor(u), now))
            /\ written' = NoteWrite(roomID, UserID(u), participants')
            /\ UNCHANGED removed
            /\ Goto(u, "CreateRoom:Push", roomID, "")
       ELSE /\ Return(u, "CreateRoom", "", "failed to create room")
            /\ UNCHANGED <<participants, written, removed>>
    /\ UNCHANGED <<now, readVars, messages, msgVars, partVars>>

CreateRoomPush(u, ok) ==
    /\ pc[u] = "CreateRoom:Push"
    /\ IF ok
       THEN /\ messages' = PushMessage(local[u].roomID,
                              SystemMessage(Username(u), " created the room", now))
            /\ Return(u, "CreateRoom", local[u].roomID, "nil")
       ELSE /\ Return(u, "CreateRoom", "", "failed to add system message")
            /\ UNCHANGED messages
    /\ UNCHANGED <<now, readVars, participants, msgVars, partVars, written, removed>>

\* CreateRoomWithID: as CreateRoom, the roomID being the caller's
CreateRoomWithID(u, roomID, ok) ==
    /\ pc[u] = "idle"
    /\ RoomOpen(roomID)
    /\ IF ok
       THEN /\ participants' = SetParticipant(roomID, UserID(u),
                                  Participant(Username(u), UserColor(u), now))
            /\ written' = NoteWrite(roomID, UserID(u), participants')
            /\ UNCHANGED removed
            /\ Goto(u, "CreateRoomWithID:Push", roomID, "")
       ELSE /\ Return(u, "CreateRoomWithID", roomID, "failed to create room")
            /\ UNCHANGED <<participants, written, removed>>
    /\ UNCHANGED <<now, readVars, messages, msgVars, partVars>>

CreateRoomWithIDPush(u, ok) ==
    /\ pc[u] = "CreateRoomWithID:Push"
    /\ IF ok
       THEN /\ messages' = PushMessage(local[u].roomID,
                              SystemMessage(Username(u), " created the room", now))
            /\ Return(u, "CreateRoomWithID", local[u].roomID, "nil")
       ELSE /\ Return(u, "CreateRoomWithID", local[u].roomID, "failed to add system message")
            /\ UNCHANGED messages
    /\ UNCHANGED <<now, readVars, participants, msgVars, partVars, written, removed>>

\* JoinRoom: Get of the room; an error and nil data both give "room does not exist"
JoinRoom(u, roomID, ok) ==
    /\ pc[u] = "idle"
    /\ RoomOpen(roomID)
    /\ IF ~ok \/ ~RoomHasData(roomID)
       THEN Return(u, "JoinRoom", roomID, "room does not exist")
       ELSE Goto(u, "JoinRoom:Set", roomID, "")
    /\ UNCHANGED <<now, readVars, storeVars, msgVars, partVars, written, removed>>

JoinRoomSet(u, ok) ==
    /\ pc[u] = "JoinRoom:Set"
    /\ IF ok
       THEN /\ participants' = SetParticipant(local[u].roomID, UserID(u),
                                  Participant(Username(u), UserColor(u), now))
            /\ written' = NoteWrite(local[u].roomID, UserID(u), participants')
            /\ UNCHANGED removed
            /\ Goto(u, "JoinRoom:Push", local[u].roomID, "")
       ELSE /\ Return(u, "JoinRoom", local[u].roomID, "failed to join room")
            /\ UNCHANGED <<participants, written, removed>>
    /\ UNCHANGED <<now, readVars, messages, msgVars, partVars>>

JoinRoomPush(u, ok) ==
    /\ pc[u] = "JoinRoom:Push"
    /\ IF ok
       THEN /\ messages' = PushMessage(local[u].roomID,
                              SystemMessage(Username(u), " joined the room", now))
            /\ Return(u, "JoinRoom", local[u].roomID, "nil")
       ELSE /\ Return(u, "JoinRoom", local[u].roomID, "failed to add system message")
            /\ UNCHANGED messages
    /\ UNCHANGED <<now, readVars, participants, msgVars, partVars, written, removed>>

\* LeaveRoom: Get of the participant record into a zero-valued Participant
LeaveRoom(u, roomID, ok) ==
    /\ pc[u] = "idle"
    /\ RoomOpen(roomID)
    /\ IF ok
       THEN Goto(u, "LeaveRoom:Push", roomID,
                 IF UserID(u) \in DOMAIN participants[roomID]
                 THEN participants[roomID][UserID(u)].name ELSE NoUser.name)
       ELSE Return(u, "LeaveRoom", roomID, "failed to get participant data")
    /\ UNCHANGED <<now, readVars, storeVars, msgVars, partVars, written, removed>>

\* LeaveRoom's Push, mutated: its error is not looked at
LeaveRoomPushUnchecked(u, ok) ==
    /\ pc[u] = "LeaveRoom:Push"
    /\ IF ok
       THEN messages' = PushMessage(local[u].roomID,
                           SystemMessage(local[u].name, " left the room", now))
       ELSE UNCHANGED messages
    /\ Goto(u, "LeaveRoom:Delete", local[u].roomID, local[u].name)
    /\ UNCHANGED <<now, readVars, participants, msgVars, partVars, written, removed>>

LeaveRoomPush(u, ok) ==
    /\ pc[u] = "LeaveRoom:Push"
    /\ IF ok
       THEN /\ messages' = PushMessage(local[u].roomID,
                              SystemMessage(local[u].name, " left the room", now))
            /\ Goto(u, "LeaveRoom:Delete", local[u].roomID, local[u].name)
       ELSE /\ Return(u, "LeaveRoom", local[u].roomID, "failed to add system message")
            /\ UNCHANGED messages
    /\ UNCHANGED <<now, readVars, participants, msgVars, partVars, written, removed>>

LeaveRoomDelete(u, ok) ==
    /\ pc[u] = "LeaveRoom:Delete"
    /\ IF ok
       THEN /\ participants' = DeleteParticipant(local[u].roomID, UserID(u))
            /\ removed' = NoteRemoval(local[u].roomID, UserID(u))
            /\ written' = NoteDelete(local[u].roomID, UserID(u))
            /\ Return(u, "LeaveRoom", local[u].roomID, "nil")
       ELSE /\ Return(u, "LeaveRoom", local[u].roomID, "failed to leave room")
            /\ UNCHANGED <<participants, written, removed>>
    /\ UNCHANGED <<now, readVars, messages, msgVars, partVars>>

\* SendMessage: encrypt, Push, then Update of the sender's lastActive
SendMessage(u, roomID, text, ok) ==
    /\ pc[u] = "idle"
    /\ RoomOpen(roomID)
    /\ IF ok
       THEN /\ messages' = PushMessage(roomID,
                              Message(Username(u), UserID(u), UserColor(u),
                                      encrypt(text, roomID), now))
            /\ Goto(u, "SendMessage:Update", roomID, "")
       ELSE /\ Return(u, "SendMessage", roomID, "failed to send message")
            /\ UNCHANGED messages
    /\ UNCHANGED <<now, readVars, participants, msgVars, partVars, written, removed>>

SendMessageUpdate(u, ok) ==
    /\ pc[u] = "SendMessage:Update"
    /\ IF ok
       THEN /\ participants' = UpdateLastActive(local[u].roomID, UserID(u), now)
            /\ written' = NoteWrite(local[u].roomID, UserID(u), participants')
            /\ UNCHANGED removed
            /\ Return(u, "SendMessage", local[u].roomID, "nil")
       ELSE /\ Return(u, "SendMessage", local[u].roomID, "failed to update activity")
            /\ UNCHANGED <<participants, written, removed>>
    /\ UNCHANGED <<now, readVars, messages, msgVars, partVars>>

UpdateActivity(u, roomID, ok) ==
    /\ pc[u] = "idle"
    /\ IF ok
       THEN /\ participants' = UpdateLastActive(roomID, UserID(u), now)
            /\ written' = NoteWrite(roomID, UserID(u), participants')
            /\ UNCHANGED removed
            /\ Return(u, "UpdateActivity", roomID, "nil")
       ELSE /\ Return(u, "UpdateActivity", roomID, "failed to update activity")
            /\ UNCHANGED <<participants, written, removed>>
    /\ UNCHANGED <<now, readVars, messages, msgVars, partVars>>

\* CheckRoomExists: Get of the room; (false, err) when the Get fails, else
\* roomData != nil.  main, waiting for it, exits with 1, goes on to NewChatUI
\* or asks whether to create the room.
CheckRoomExists(u, roomID, ok) ==
    /\ pc[u] = "idle"
    /\ LET exists == ok /\ RoomHasData(roomID)
           err == IF ok THEN "nil" ELSE "failed to check room"
           m == [main[u] EXCEPT !.roomExists = exists]
       IN  /\ ret' = [userID |-> UserID(u), op |-> "CheckRoomExists", roomID |-> roomID, err |-> err]
           /\ main' = [main EXCEPT ![u] =
                          IF m.at /= "check" THEN m
                          ELSE IF ~ok THEN Exit(m, 1)
                          ELSE IF exists THEN [m EXCEPT !.at = "ui"]
                          ELSE [m EXCEPT !.at = "prompt"]]
    /\ UNCHANGED <<now, readVars, storeVars, pc, local, msgVars, partVars, written, removed>>

\* main started with a room identifier as its argument
MainStart(u, roomID) ==
    /\ main[u].at = "off"
    /\ pc[u] = "idle"
    /\ main' = [main EXCEPT ![u] = [MainOff EXCEPT !.at = "check", !.roomID = roomID]]
    /\ UNCHANGED <<now, readVars, storeVars, pc, local, ret, msgVars, partVars, written, removed>>

\* main started without arguments: CreateRoom comes next
MainStartNew(u) ==
    /\ main[u].at = "off"
    /\ pc[u] = "idle"
    /\ main' = [main EXCEPT ![u] = [MainOff EXCEPT !.at = "newroom"]]
    /\ UNCHANGED <<now, readVars, storeVars, pc, local, ret, msgVars, partVars, written, removed>>

\* the answer to "Room does not exist. Create it? (y/N)"
Prompt(u, yes) ==
    /\ main[u].at = "prompt"
    /\ main' = [main EXCEPT ![u] = IF yes THEN [@ EXCEPT !.at = "create"] ELSE Exit(@, 0)]
    /\ UNCHANGED <<now, readVars, storeVars, pc, local, ret, msgVars, partVars, written, removed>>

\* A record whose text is no output of encrypt for this room (another writer of the store)
CorruptPush(u, roomID, text) ==
    /\ RoomOpen(roomID)
    /\ messages' = PushMessage(roomID,
                      Message(Username(u), u, UserColor(u), text, now))
    /\ UNCHANGED <<now, readVars, participants, procVars, msgVars, partVars, written, removed>>

\* A value at rooms/roomID/messages that is no Message (another writer of the store)
MalformedPush(roomID) ==
    /\ RoomOpen(roomID)
    /\ messages' = PushMessage(roomID, MalformedRecord)
    /\ UNCHANGED <<now, readVars, participants, procVars, msgVars, partVars, written, removed>>

(***************************************************************************)
(* Message synchronizer: the goroutine of ListenForMessages(ChatRoom).     *)
(***************************************************************************)
Max(a, b) == IF a > b THEN a ELSE b

Keys(roomID) == 1..Len(messages[roomID])

\* Ref.Get into a map[string]Message: err == nil needs the store reached (ok)
\* and every record of the collection decoded
FetchOk(roomID, ok) ==
    ok /\ \A k \in Keys(roomID) : Decodable(messages[roomID][k])

\* the orders in which ranging over a Go map of these keys can yield them
RECURSIVE Enumerations(_)
Enumerations(keys) ==
    IF keys = {} THEN {<<>>}
    ELSE UNION {{<<k>> \o rest : rest \in Enumerations(keys \ {k})} : k \in keys}

RECURSIVE MaxTimestampOf(_)
MaxTimestampOf(msgs) ==
    IF msgs = <<>> THEN 0
    ELSE Max(msgs[Len(msgs)].timestamp, MaxTimestampOf(SubSeq(msgs, 1, Len(msgs) - 1)))

\* the two skip tests of the poll loop, mutated: the watermark test left out
SkipSeenOnly(msgID, msg) ==
    msgID \in processedMsgIDs

\* the two skip tests of the poll loop, mutated: the watermark test off by one
SkipBelowNext(msgID, msg) ==
    \/ msgID \in processedMsgIDs
    \/ msg.timestamp <= lastTimestamp + 1 /\ lastTimestamp > 0

\* the two skip tests of the poll loop, mutated: a record at the watermark passes
SkipStrictlyBelow(msgID, msg) ==
    \/ msgID \in processedMsgIDs
    \/ msg.timestamp < lastTimestamp /\ lastTimestamp > 0

\* the two skip tests of the poll loop
Skip(msgID, msg) ==
    \/ msgID \in processedMsgIDs
    \/ msg.timestamp <= lastTimestamp /\ lastTimestamp > 0

\* the poll loop, mutated: it stops after the first record it takes
CollectOne(order, i) ==
    LET new == SelectSeq(order, LAMBDA msgID : ~Skip(msgID, messages[ChatRoom][msgID]))
    IN  IF new = <<>> THEN <<>>
        ELSE <<[id |-> new[1], msg |-> decryptMessage(messages[ChatRoom][new[1]], ChatRoom)]>>

\* the poll loop over one enumeration: the new records, decrypted, in enumeration order
RECURSIVE Collect(_, _)
Collect(order, i) ==
    IF i > Len(order) THEN <<>>
    ELSE LET msgID == order[i]
             msg == messages[ChatRoom][msgID]
         IN  IF Skip(msgID, msg)
             THEN Collect(order, i + 1)
             ELSE <<[id |-> msgID, msg |-> decryptMessage(msg, ChatRoom)]>>
                     \o Collect(order, i + 1)

\* sort.Slice, mutated: the batch is left in enumeration order
Unsorted(batch) == batch

\* sort.Slice with less = Timestamp <; an insertion sort for batches this short
RECURSIVE SortByTimestamp(_)
SortByTimestamp(batch) ==
    IF batch = <<>> THEN <<>>
    ELSE LET x == batch[Len(batch)]
             front == SortByTimestamp(SubSeq(batch, 1, Len(batch) - 1))
             before == SelectSeq(front, LAMBDA e : ~(x.msg.timestamp < e.msg.timestamp))
             after == SelectSeq(front, LAMBDA e : x.msg.timestamp < e.msg.timestamp)
         IN  before \o <<x>> \o after

\* the running maximum of the poll loop, mutated: the timestamp of the record
\* taken last is kept, larger or not
BatchLast(batch, start) ==
    IF batch = <<>> THEN start ELSE batch[Len(batch)].msg.timestamp

RECURSIVE BatchMax(_, _)
BatchMax(batch, start) ==
    IF batch = <<>> THEN start
    ELSE BatchMax(Tail(batch), Max(start, Head(batch).msg.timestamp))

Ids(batch) == {batch[i].id : i \in 1..Len(batch)}

\* the cleanup of the dedup set, mutated: the set is never replaced
CleanupNever(ids) == ids

\* the cleanup of the dedup set at the end of a poll
Cleanup(ids) == IF Cardinality(ids) > ProcessedLimit THEN {} ELSE ids

\* the go statement: the goroutine exists, nothing fetched yet
ListenForMessages ==
    /\ msgPc = "off"
    /\ msgPc' = "seed"
    /\ atStart' = Keys(ChatRoom)
    /\ UNCHANGED <<now, readVars, storeVars, procVars, lastTimestamp, processedMsgIDs,
                   orderedMsgs, maxTimestamp, msgChan, atSeed, resets, outage,
                   partVars, written, removed>>

\* the seeding fetch
MsgSeed(ok) ==
    /\ msgPc = "seed"
    /\ msgPc' = "poll"
    /\ atSeed' = Keys(ChatRoom)
    /\ IF FetchOk(ChatRoom, ok)
       THEN /\ lastTimestamp' = MaxTimestampOf(messages[ChatRoom])
            /\ processedMsgIDs' = Keys(ChatRoom)
       ELSE UNCHANGED <<lastTimestamp, processedMsgIDs>>
    /\ UNCHANGED <<now, readVars, storeVars, procVars, orderedMsgs, maxTimestamp, msgChan,
                   atStart, resets, outage, partVars, written, removed>>

\* one poll: fetch, filter, sort
MsgPoll(ok, order) ==
    /\ msgPc = "poll"
    /\ IF FetchOk(ChatRoom, ok) /\ Len(messages[ChatRoom]) > 0
       THEN LET batch == Collect(order, 1)
            IN  /\ processedMsgIDs' = processedMsgIDs \cup Ids(batch)
                /\ orderedMsgs' = SortByTimestamp(batch)
                /\ maxTimestamp' = BatchMax(batch, lastTimestamp)
                /\ msgPc' = "send"
       ELSE UNCHANGED <<processedMsgIDs, orderedMsgs, maxTimestamp, msgPc>>
    /\ outage' = ~FetchOk(ChatRoom, ok)
    /\ UNCHANGED <<now, readVars, storeVars, procVars, lastTimestamp, msgChan, atStart,
                   atSeed, resets, partVars, written, removed>>

\* msgChan <- msg, taken by the consumer
MsgSend ==
    /\ msgPc = "send"
    /\ orderedMsgs /= <<>>
    /\ msgChan' = Append(msgChan, Head(orderedMsgs))
    /\ orderedMsgs' = Tail(orderedMsgs)
    /\ UNCHANGED <<now, readVars, storeVars, procVars, msgPc, lastTimestamp, processedMsgIDs,
                   maxTimestamp, atStart, atSeed, resets, outage, partVars, written, removed>>

\* after the sends: advance the watermark, clean up the dedup set, sleep
MsgFinish ==
    /\ msgPc = "send"
    /\ orderedMsgs = <<>>
    /\ lastTimestamp' = maxTimestamp
    /\ processedMsgIDs' = Cleanup(processedMsgIDs)
    /\ resets' = IF Cardinality(processedMsgIDs) > ProcessedLimit /\ resets < MaxResets
                 THEN resets + 1 ELSE resets
    /\ msgPc' = "poll"
    /\ UNCHANGED <<now, readVars, storeVars, procVars, orderedMsgs, maxTimestamp, msgChan,
                   atStart, atSeed, outage, partVars, written, removed>>

(***************************************************************************)
(* Initial load: GetInitialMessages(roomID), one fetch of the whole room.  *)
(***************************************************************************)
NotLoaded == [roomID |-> "", err |-> "", msgs |-> <<>>]

\* the range loop: every record of the room, decrypted, in enumeration order
RECURSIVE DecryptAll(_, _, _)
DecryptAll(roomID, order, i) ==
    IF i > Len(order) THEN <<>>
    ELSE <<[id |-> order[i], msg |-> decryptMessage(messages[roomID][order[i]], roomID)]>>
            \o DecryptAll(roomID, order, i + 1)

\* the slice returned, mutated: sort.Slice left out
InitialMessagesUnsorted(roomID, order) ==
    LET all == DecryptAll(roomID, order, 1)
    IN  [i \in 1..Len(all) |-> all[i].msg]

\* the slice GetInitialMessages returns when the fetch succeeds
InitialMessages(roomID, order) ==
    LET sorted == SortByTimestamp(DecryptAll(roomID, order, 1))
    IN  [i \in 1..Len(sorted) |-> sorted[i].msg]

GetInitialMessages(roomID, ok, order) ==
    /\ initial' = IF FetchOk(roomID, ok)
                  THEN [roomID |-> roomID, err |-> "nil",
                        msgs |-> InitialMessages(roomID, order)]
                  ELSE [roomID |-> roomID, err |-> "failed to get initial messages",
                        msgs |-> <<>>]
    /\ UNCHANGED <<now, storeVars, procVars, msgVars, partVars, written, removed, codec, ui>>

(***************************************************************************)
(* Consumer: the bubbletea program running ChatModel. Each waitForMessages *)
(* command is a goroutine that receives one message from msgChan and hands *)
(* it to Update; a send on msgChan completes when one of them takes it.    *)
(***************************************************************************)
\* receivers: waitForMessages commands started so far (capped at MaxMsgs);
\* shown: the positions in msgChan of the messages Update has appended to
\* m.messages, in the order of the appends
UiOff == [receivers |-> 0, shown |-> <<>>]

\* the messages taken from msgChan by a command and not yet handed to Update
Held == (1..Len(msgChan)) \ {ui.shown[i] : i \in 1..Len(ui.shown)}

\* a waitForMessages command is blocked at its receive
ReceiverWaiting == ui.receivers > Len(msgChan)

MoreReceivers(n) == IF ui.receivers + n > MaxMsgs THEN MaxMsgs ELSE ui.receivers + n

\* Init: the batch holds one waitForMessages
UiInit ==
    /\ ui = UiOff
    /\ ui' = [ui EXCEPT !.receivers = 1]
    /\ UNCHANGED <<now, storeVars, procVars, msgVars, partVars, written, removed,
                   initial, codec>>

\* Update, case firebase.Message, for the message a command hands in: it is
\* appended, and two waitForMessages are started (the case's and the tail's)
UiUpdateMessage(i) ==
    /\ i \in Held
    /\ ui' = [ui EXCEPT !.shown = Append(@, i), !.receivers = MoreReceivers(2)]
    /\ UNCHANGED <<now, storeVars, procVars, msgVars, partVars, written, removed,
                   initial, codec>>

\* Update for any other tea.Msg (a key, the cursor blink, a participant
\* snapshot, the keep-alive tick): the tail starts one waitForMessages
UiUpdateOther ==
    /\ ui.receivers >= 1
    /\ ui.receivers < MaxMsgs
    /\ ui' = [ui EXCEPT !.receivers = MoreReceivers(1)]
    /\ UNCHANGED <<now, storeVars, procVars, msgVars, partVars, written, removed,
                   initial, codec>>

(***************************************************************************)
(* Presence synchronizer: the goroutine of ListenForParticipants(ChatRoom).*)
(***************************************************************************)
MaxLastActive(ps) ==
    IF DOMAIN ps = {} THEN 0
    ELSE CHOOSE m \in {ps[u].lastActive : u \in DOMAIN ps} :
            \A u \in DOMAIN ps : ps[u].lastActive <= m

\* what is sent, mutated: only the records above the recorded maximum
SnapshotDelta(fetched) ==
    [u \in {x \in DOMAIN fetched : fetched[x].lastActive > lastUpdate} |-> fetched[u]]

\* what is sent on partChan: the fetched map itself
Snapshot(fetched) == fetched

\* the emission test, mutated: only the first successful poll emits
FirstPollOnly(maxTs) == lastUpdate = 0

\* the emission test, mutated: nothing is emitted while the recorded maximum is 0
NotOnFirstPoll(maxTs) == maxTs > lastUpdate /\ lastUpdate > 0

\* the emission test of the presence poll
HasNewActivity(maxTs) == maxTs > lastUpdate \/ lastUpdate = 0

ListenForParticipants ==
    /\ partPc = "off"
    /\ partPc' = "poll"
    /\ UNCHANGED <<now, readVars, storeVars, procVars, msgVars, lastUpdate, partPending,
                   partChan, written, removed>>

PartPoll(ok) ==
    /\ partPc = "poll"
    /\ IF ok
       THEN LET fetched == participants[ChatRoom]
                maxTs == MaxLastActive(fetched)
            IN  /\ written' = {}
                /\ removed' = {}
                /\ IF HasNewActivity(maxTs)
                   THEN /\ lastUpdate' = maxTs
                        /\ partPending' = [snapshot |-> Snapshot(fetched), store |-> fetched]
                        /\ partPc' = "send"
                   ELSE UNCHANGED <<lastUpdate, partPending, partPc>>
       ELSE UNCHANGED <<lastUpdate, partPending, partPc, written, removed>>
    /\ UNCHANGED <<now, readVars, storeVars, procVars, msgVars, partChan>>

\* the send on partChan, mutated: one task serves both channels, so the
\* snapshot waits while a message is being sent
PartSendBehindMsg ==
    /\ partPc = "send"
    /\ ~(msgPc = "send" /\ orderedMsgs /= <<>>)
    /\ partChan' = [n |-> IF partChan.n < MaxSnapshots THEN partChan.n + 1 ELSE partChan.n,
                    snapshot |-> partPending.snapshot, store |-> partPending.store]
    /\ partPc' = "poll"
    /\ UNCHANGED <<now, readVars, storeVars, procVars, msgVars, lastUpdate, partPending, written, removed>>

\* partChan <- participants, taken by the consumer
PartSend ==
    /\ partPc = "send"
    /\ partChan' = [n |-> IF partChan.n < MaxSnapshots THEN partChan.n + 1 ELSE partChan.n,
                    snapshot |-> partPending.snapshot, store |-> partPending.store]
    /\ partPc' = "poll"
    /\ UNCHANGED <<now, readVars, storeVars, procVars, msgVars, lastUpdate, partPending, written, removed>>

(***************************************************************************)
(* Specifications                                                          *)
(***************************************************************************)
NoSnapshot == [u \in {} |-> NoUser]

\* the state after u1's CreateRoom returned ChatRoom at second 1
Created ==
    /\ now = 1
    /\ messages = [r \in RoomIds |->
          IF r = ChatRoom
          THEN <<SystemMessage(Username("u1"), " created the room", 1)>> ELSE <<>>]
    /\ participants = [r \in RoomIds |->
          IF r = ChatRoom
          THEN [u \in {"u1"} |-> Participant(Username(u), UserColor(u), 1)]
          ELSE NoSnapshot]
    /\ pc = [u \in Procs |-> "idle"]
    /\ local = [u \in Procs |-> Idle]
    /\ main = [u \in Procs |-> MainOff]
    /\ ret = [userID |-> "u1", op |-> "CreateRoom", roomID |-> ChatRoom, err |-> "nil"]

SessionOff ==
    /\ msgPc = "off"
    /\ lastTimestamp = 0
    /\ processedMsgIDs = {}
    /\ orderedMsgs = <<>>
    /\ maxTimestamp = 0
    /\ msgChan = <<>>
    /\ atStart = {}
    /\ atSeed = {}
    /\ resets = 0
    /\ outage = FALSE
    /\ partPc = "off"
    /\ lastUpdate = 0
    /\ partPending = [snapshot |-> NoSnapshot, store |-> NoSnapshot]
    /\ partChan = [n |-> 0, snapshot |-> NoSnapshot, store |-> NoSnapshot]
    /\ written = {}
    /\ removed = {}
    /\ initial = NotLoaded
    /\ ui = UiOff

SyncInit == Created /\ SessionOff /\ codec = CodecOff

\* the message synchronizer of ChatRoom and the writers of its message collection
SyncNext ==
    \/ Tick
    \/ \E t \in Texts : SendMessage("u1", ChatRoom, t, TRUE)
    \/ SendMessageUpdate("u1", TRUE)
    \/ CorruptPush("u2", ChatRoom, <<"not-base64">>)
    \/ ListenForMessages
    \/ \E ok \in BOOLEAN : MsgSeed(ok)
    \/ \E order \in Enumerations(Keys(ChatRoom)) : MsgPoll(TRUE, order)
    \/ MsgPoll(FALSE, <<>>)
    \/ MsgSend
    \/ MsgFinish

SyncSpec == SyncInit /\ [][SyncNext]_vars

\* the presence synchronizer of ChatRoom and the writers of its participant records
PresenceInit == Created /\ SessionOff /\ codec = CodecOff

PresenceNext ==
    \/ Tick
    \/ JoinRoom("u2", ChatRoom, TRUE)
    \/ JoinRoomSet("u2", TRUE)
    \/ JoinRoomPush("u2", TRUE)
    \/ \E u \in Users : UpdateActivity(u, ChatRoom, TRUE)
    \/ \E t \in Texts : SendMessage("u1", ChatRoom, t, TRUE)
    \/ SendMessageUpdate("u1", TRUE)
    \/ LeaveRoom("u2", ChatRoom, TRUE)
    \/ LeaveRoomPush("u2", TRUE)
    \/ LeaveRoomDelete("u2", TRUE)
    \/ ListenForParticipants
    \/ \E ok \in BOOLEAN : PartPoll(ok)
    \/ PartSend

PresenceSpec == PresenceInit /\ [][PresenceNext]_vars

\* the room lifecycle operations of two clients over an empty store, store calls failing or not
Init ==
    /\ now = 1
    /\ messages = [r \in RoomIds |-> <<>>]
    /\ participants = [r \in RoomIds |-> NoSnapshot]
    /\ pc = [u \in Procs |-> "idle"]
    /\ local = [u \in Procs |-> Idle]
    /\ main = [u \in Procs |-> MainOff]
    /\ ret = [userID |-> "", op |-> "", roomID |-> "", err |-> "nil"]
    /\ SessionOff
    /\ codec = CodecOff

Next ==
    \/ Tick
    \/ \E r \in RoomIds : CreateRoom("u1", r, TRUE)
    \/ CreateRoomPush("u1", TRUE)
    \/ \E u \in Users, r \in RoomIds, ok \in BOOLEAN : JoinRoom(u, r, ok)
    \/ \E u \in Users : JoinRoomSet(u, TRUE)
    \/ \E u \in Users : JoinRoomPush(u, TRUE)
    \/ \E r \in RoomIds, ok \in BOOLEAN : LeaveRoom("u2", r, ok)
    \/ LeaveRoomPush("u2", TRUE)
    \/ LeaveRoomDelete("u2", TRUE)

Spec == Init /\ [][Next]_vars

\* polls eventually succeed and the consumer keeps receiving from msgChan
FairSyncSpec ==
    /\ SyncSpec
    /\ WF_vars(MsgSeed(TRUE))
    /\ WF_vars(\E order \in Enumerations(Keys(ChatRoom)) : MsgPoll(TRUE, order))
    /\ WF_vars(MsgSend)
    /\ WF_vars(MsgFinish)

\* u1 creates ChatRoom, u2 joins it, and the room is loaded at any point
LoadNext ==
    \/ Tick
    \/ CreateRoom("u1", ChatRoom, TRUE)
    \/ CreateRoomPush("u1", TRUE)
    \/ JoinRoom("u2", ChatRoom, TRUE)
    \/ JoinRoomSet("u2", TRUE)
    \/ JoinRoomPush("u2", TRUE)
    \/ \E ok \in BOOLEAN, order \in Enumerations(Keys(ChatRoom)) :
          GetInitialMessages(ChatRoom, ok, order)

LoadSpec == Init /\ [][LoadNext]_vars

\* every operation that writes message records of ChatRoom, SendMessage being
\* called with the userID "system", and the initial load reading them
ReservedNext ==
    \/ Tick
    \/ \E t \in Texts : SendMessage("system", ChatRoom, t, TRUE)
    \/ SendMessageUpdate("system", TRUE)
    \/ JoinRoom("u2", ChatRoom, TRUE)
    \/ JoinRoomSet("u2", TRUE)
    \/ JoinRoomPush("u2", TRUE)
    \/ LeaveRoom("u2", ChatRoom, TRUE)
    \/ LeaveRoomPush("u2", TRUE)
    \/ LeaveRoomDelete("u2", TRUE)
    \/ \E order \in Enumerations(Keys(ChatRoom)) : GetInitialMessages(ChatRoom, TRUE, order)

ReservedSpec == SyncInit /\ [][ReservedNext]_vars

\* u1 sends to ChatRoom; the room is read by its synchronizer and by the initial load
SendNext ==
    \/ Tick
    \/ \E t \in Texts : SendMessage("u1", ChatRoom, t, TRUE)
    \/ SendMessageUpdate("u1", TRUE)
    \/ ListenForMessages
    \/ MsgSeed(TRUE)
    \/ \E order \in Enumerations(Keys(ChatRoom)) : MsgPoll(TRUE, order)
    \/ MsgSend
    \/ MsgFinish
    \/ \E order \in Enumerations(Keys(ChatRoom)) : GetInitialMessages(ChatRoom, TRUE, order)

SendSpec == SyncInit /\ [][SendNext]_vars

\* the message synchronizer of ChatRoom, every store call reaching the store,
\* u1 sending and another writer leaving a value that is no Message
MalformedNext ==
    \/ Tick
    \/ \E t \in Texts : SendMessage("u1", ChatRoom, t, TRUE)
    \/ SendMessageUpdate("u1", TRUE)
    \/ MalformedPush(ChatRoom)
    \/ ListenForMessages
    \/ MsgSeed(TRUE)
    \/ \E order \in Enumerations(Keys(ChatRoom)) : MsgPoll(TRUE, order)
    \/ MsgSend
    \/ MsgFinish

MalformedSpec == SyncInit /\ [][MalformedNext]_vars

\* One client's session on ChatRoom in the order of main and NewChatUI, every
\* store call succeeding: the room is created when it has no data, then
\* JoinRoom, GetInitialMessages, the two listeners, and with them running
\* SendMessage, UpdateActivity and LeaveRoom.
Joined == ret = [userID |-> "u1", op |-> "JoinRoom", roomID |-> ChatRoom, err |-> "nil"]

Listening == msgPc /= "off" /\ partPc /= "off"

CoreNext ==
    \/ Tick
    \/ ~RoomHasData(ChatRoom) /\ CreateRoom("u1", ChatRoom, TRUE)
    \/ CreateRoomPush("u1", TRUE)
    \/ ~RoomHasData(ChatRoom) /\ CreateRoomWithID("u1", ChatRoom, TRUE)
    \/ CreateRoomWithIDPush("u1", TRUE)
    \/ ret.op \in {"CreateRoom", "CreateRoomWithID"} /\ JoinRoom("u1", ChatRoom, TRUE)
    \/ JoinRoomSet("u1", TRUE)
    \/ JoinRoomPush("u1", TRUE)
    \/ /\ Joined /\ initial = NotLoaded
       /\ \E order \in Enumerations(Keys(ChatRoom)) : GetInitialMessages(ChatRoom, TRUE, order)
    \/ initial /= NotLoaded /\ ListenForMessages
    \/ MsgSeed(TRUE)
    \/ msgPc = "poll" /\ \E order \in Enumerations(Keys(ChatRoom)) : MsgPoll(TRUE, order)
    \/ MsgSend
    \/ MsgFinish
    \/ msgPc /= "off" /\ ListenForParticipants
    \/ PartPoll(TRUE)
    \/ PartSend
    \/ Listening /\ \E t \in Texts : SendMessage("u1", ChatRoom, t, TRUE)
    \/ SendMessageUpdate("u1", TRUE)
    \/ Listening /\ UpdateActivity("u1", ChatRoom, TRUE)
    \/ Listening /\ LeaveRoom("u1", ChatRoom, TRUE)
    \/ LeaveRoomPush("u1", TRUE)
    \/ LeaveRoomDelete("u1", TRUE)

CoreSpec == Init /\ [][CoreNext]_vars

\* the message synchronizer of ChatRoom with fetches failing or not, u1 sending
OutageNext ==
    \/ Tick
    \/ \E t \in Texts : SendMessage("u1", ChatRoom, t, TRUE)
    \/ SendMessageUpdate("u1", TRUE)
    \/ ListenForMessages
    \/ \E ok \in BOOLEAN : MsgSeed(ok)
    \/ msgPc = "poll" /\ \E order \in Enumerations(Keys(ChatRoom)) : MsgPoll(TRUE, order)
    \/ MsgPoll(FALSE, <<>>)
    \/ MsgSend
    \/ MsgFinish

OutageSpec == SyncInit /\ [][OutageNext]_vars

\* the presence synchronizer of ChatRoom while participants come, are active
\* and leave, the creator included, so that the room can be left empty
RemovalNext ==
    \/ Tick
    \/ JoinRoom("u2", ChatRoom, TRUE)
    \/ JoinRoomSet("u2", TRUE)
    \/ JoinRoomPush("u2", TRUE)
    \/ \E u \in Users : UpdateActivity(u, ChatRoom, TRUE)
    \/ \E u \in Users : LeaveRoom(u, ChatRoom, TRUE)
    \/ \E u \in Users : LeaveRoomPush(u, TRUE)
    \/ \E u \in Users : LeaveRoomDelete(u, TRUE)
    \/ ListenForParticipants
    \/ \E ok \in BOOLEAN : PartPoll(ok)
    \/ PartSend

RemovalSpec == PresenceInit /\ [][RemovalNext]_vars

\* the keep-alive writes of both clients to either room, failing or not,
\* while u2 joins and leaves ChatRoom
ActivityNext ==
    \/ Tick
    \/ JoinRoom("u2", ChatRoom, TRUE)
    \/ JoinRoomSet("u2", TRUE)
    \/ JoinRoomPush("u2", TRUE)
    \/ LeaveRoom("u2", ChatRoom, TRUE)
    \/ LeaveRoomPush("u2", TRUE)
    \/ LeaveRoomDelete("u2", TRUE)
    \/ \E u \in Users, r \in RoomIds, ok \in BOOLEAN : UpdateActivity(u, r, ok)

ActivitySpec == PresenceInit /\ [][ActivityNext]_vars

\* main of two clients, each started once, with ChatRoom as its argument or
\* without arguments, over an empty store, store calls failing or not, up to
\* the running UI and the quit that leaves the room
StartNext ==
    \/ Tick
    \/ \E u \in Users : MainStart(u, ChatRoom)
    \/ MainStartNew("u1")
    \/ \E u \in Users, ok \in BOOLEAN :
          main[u].at = "check" /\ CheckRoomExists(u, main[u].roomID, ok)
    \/ \E u \in Users, yes \in BOOLEAN : Prompt(u, yes)
    \/ \E u \in Users, ok \in BOOLEAN :
          main[u].at = "create" /\ CreateRoomWithID(u, main[u].roomID, ok)
    \/ \E u \in Users, ok \in BOOLEAN : CreateRoomWithIDPush(u, ok)
    \/ \E ok \in BOOLEAN : main["u1"].at = "newroom" /\ CreateRoom("u1", ChatRoom, ok)
    \/ \E ok \in BOOLEAN : CreateRoomPush("u1", ok)
    \/ \E u \in Users, ok \in BOOLEAN :
          main[u].at = "ui" /\ JoinRoom(u, main[u].roomID, ok)
    \/ \E u \in Users, ok \in BOOLEAN : JoinRoomSet(u, ok)
    \/ \E u \in Users, ok \in BOOLEAN : JoinRoomPush(u, ok)
    \/ \E u \in Users : main[u].at = "running" /\ LeaveRoom(u, main[u].roomID, TRUE)
    \/ \E u \in Users : LeaveRoomPush(u, TRUE)
    \/ \E u \in Users : LeaveRoomDelete(u, TRUE)

StartSpec == Init /\ [][StartNext]_vars

\* the initial load of ChatRoom, its fetch failing or not, taken once in any
\* state the writers bring the room to, from the empty room on: u1 creates the
\* room and sends, another writer leaves a blob that encrypt made for another
\* room
ReadNext ==
    \/ initial = NotLoaded /\ Tick
    \/ initial = NotLoaded /\ CreateRoom("u1", ChatRoom, TRUE)
    \/ initial = NotLoaded /\ CreateRoomPush("u1", TRUE)
    \/ initial = NotLoaded /\ \E t \in Texts : SendMessage("u1", ChatRoom, t, TRUE)
    \/ initial = NotLoaded /\ SendMessageUpdate("u1", TRUE)
    \/ initial = NotLoaded /\ CorruptPush("u2", ChatRoom, encrypt(<<"hi">>, "r2"))
    \/ /\ initial = NotLoaded
       /\ \E order \in Enumerations(Keys(ChatRoom)) : GetInitialMessages(ChatRoom, TRUE, order)
    \/ initial = NotLoaded /\ GetInitialMessages(ChatRoom, FALSE, <<>>)

ReadSpec == Init /\ [][ReadNext]_vars

\* three processes started with ChatRoom as their argument over an empty
\* store, two of them with the same config file, every store call succeeding
\* and every prompt answered yes, up to the return of CreateRoomWithID
Racers == {"u1", "u1b", "u2"}

RaceNext ==
    \/ Tick
    \/ \E u \in Racers : MainStart(u, ChatRoom)
    \/ \E u \in Racers : main[u].at = "check" /\ CheckRoomExists(u, main[u].roomID, TRUE)
    \/ \E u \in Racers : Prompt(u, TRUE)
    \/ \E u \in Racers : main[u].at = "create" /\ CreateRoomWithID(u, main[u].roomID, TRUE)
    \/ \E u \in Racers : CreateRoomWithIDPush(u, TRUE)

RaceSpec == Init /\ [][RaceNext]_vars

\* both synchronizers of ChatRoom, every store call succeeding, while u1
\* sends; the consumer receives from either channel whenever it does, or not
BothNext ==
    \/ Tick
    \/ \E t \in Texts : SendMessage("u1", ChatRoom, t, TRUE)
    \/ SendMessageUpdate("u1", TRUE)
    \/ ListenForMessages
    \/ MsgSeed(TRUE)
    \/ msgPc = "poll" /\ \E order \in Enumerations(Keys(ChatRoom)) : MsgPoll(TRUE, order)
    \/ MsgSend
    \/ MsgFinish
    \/ ListenForParticipants
    \/ PartPoll(TRUE)
    \/ PartSend

BothSpec == SyncInit /\ [][BothNext]_vars

\* the codec given every plaintext and room, and blobs damaged on their way
CodecInit ==
    /\ Created
    /\ SessionOff
    /\ codec \in {[CodecOff EXCEPT !.plain = s, !.roomID = r] :
                      s \in Plaintexts, r \in RoomIds}

CodecNext ==
    \/ CodecEncrypt
    \/ \E b \in Damaged(codec.blob, codec.plain, codec.roomID) : CodecDamage(b)
    \/ \E r \in RoomIds : CodecDecrypt(r)

CodecSpec == CodecInit /\ [][CodecNext]_vars

(***************************************************************************)
(* Properties of the codec                                                 *)
(***************************************************************************)
\* the session start of u1 in the room it created (NewChatUI: the initial load,
\* then the go statement of the message synchronizer, which seeds and polls)
\* while u2 joins the room and sends
SessionNext ==
    \/ Tick
    \/ JoinRoom("u2", ChatRoom, TRUE)
    \/ JoinRoomSet("u2", TRUE)
    \/ JoinRoomPush("u2", TRUE)
    \/ /\ "u2" \in DOMAIN participants[ChatRoom]
       /\ \E t \in Texts : SendMessage("u2", ChatRoom, t, TRUE)
    \/ SendMessageUpdate("u2", TRUE)
    \/ /\ initial = NotLoaded
       /\ \E order \in Enumerations(Keys(ChatRoom)) : GetInitialMessages(ChatRoom, TRUE, order)
    \/ initial /= NotLoaded /\ ListenForMessages
    \/ MsgSeed(TRUE)
    \/ msgPc = "poll" /\ \E order \in Enumerations(Keys(ChatRoom)) : MsgPoll(TRUE, order)
    \/ MsgSend
    \/ MsgFinish

SessionSpec == SyncInit /\ [][SessionNext]_vars

\* the message synchronizer of ChatRoom sending to the bubbletea program, u1
\* sending messages
ConsumerNext ==
    \/ Tick
    \/ \E t \in Texts : SendMessage("u1", ChatRoom, t, TRUE)
    \/ SendMessageUpdate("u1", TRUE)
    \/ ListenForMessages
    \/ MsgSeed(TRUE)
    \/ msgPc = "poll" /\ \E order \in Enumerations(Keys(ChatRoom)) : MsgPoll(TRUE, order)
    \/ ReceiverWaiting /\ MsgSend
    \/ MsgFinish
    \/ UiInit
    \/ \E i \in 1..MaxMsgs : UiUpdateMessage(i)
    \/ UiUpdateOther

ConsumerSpec == SyncInit /\ [][ConsumerNext]_vars

\* u2's session has joined ChatRoom: its "joined" message is in the room
Started(u) ==
    \E k \in Keys(ChatRoom) :
        messages[ChatRoom][k].text = <<Username(u), " joined the room">>

\* the session of u2 in the room u1 created: the join of NewChatUI, then the
\* keep-alive ticks, the sends and the quit that leaves the room, the
\* keep-alive command being a goroutine of its own that can run after the
\* quit; u1, the creator, is active and sends meanwhile
KeepAliveNext ==
    \/ Tick
    \/ UpdateActivity("u1", ChatRoom, TRUE)
    \/ \E t \in Texts : SendMessage("u1", ChatRoom, t, TRUE)
    \/ SendMessageUpdate("u1", TRUE)
    \/ ~Started("u2") /\ JoinRoom("u2", ChatRoom, TRUE)
    \/ JoinRoomSet("u2", TRUE)
    \/ JoinRoomPush("u2", TRUE)
    \/ Started("u2") /\ UpdateActivity("u2", ChatRoom, TRUE)
    \/ Started("u2") /\ \E t \in Texts : SendMessage("u2", ChatRoom, t, TRUE)
    \/ SendMessageUpdate("u2", TRUE)
    \/ Started("u2") /\ LeaveRoom("u2", ChatRoom, TRUE)
    \/ LeaveRoomPush("u2", TRUE)
    \/ LeaveRoomDelete("u2", TRUE)

KeepAliveSpec == PresenceInit /\ [][KeepAliveNext]_vars

\* u2 joining, sending in and leaving the room u1 created, every store call
\* failing or not
FailureNext ==
    \/ Tick
    \/ JoinRoom("u2", ChatRoom, TRUE)
    \/ \E ok \in BOOLEAN : JoinRoomSet("u2", ok)
    \/ \E ok \in BOOLEAN : JoinRoomPush("u2", ok)
    \/ \E t \in Texts, ok \in BOOLEAN : SendMessage("u2", ChatRoom, t, ok)
    \/ \E ok \in BOOLEAN : SendMessageUpdate("u2", ok)
    \/ \E ok \in BOOLEAN : LeaveRoom("u2", ChatRoom, ok)
    \/ \E ok \in BOOLEAN : LeaveRoomPush("u2", ok)
    \/ \E ok \in BOOLEAN : LeaveRoomDelete("u2", ok)

FailureSpec == PresenceInit /\ [][FailureNext]_vars

\* the codec called twice to encrypt, with any two plaintexts and rooms, and
\* then to decrypt
NonceNext ==
    \/ CodecEncrypt
    \/ \E s \in Plaintexts, r \in RoomIds : CodecEncryptAgain(s, r)
    \/ \E r \in RoomIds : CodecDecrypt(r)

NonceSpec == CodecInit /\ [][NonceNext]_vars

\* the nonce bytes at the head of a blob, under the base64 armour
NonceOf(blob) == SubSeq(blob, 2, NonceSize + 1)

\* C33: of two calls of encrypt for the same room the blobs start with the
\* same nonce bytes, and with the same plaintext too the blobs are equal.
EncryptDeterministic ==
    (codec.prev /= NoCall /\ codec.prev.roomID = codec.roomID)
        => /\ NonceOf(codec.blob) = NonceOf(codec.prev.blob)
           /\ codec.prev.plain = codec.plain => codec.blob = codec.prev.blob

\* C33 witness: two different plaintexts were encrypted for r2, and the same
\* plaintext twice for a room
SameNonceTwoTexts ==
    /\ codec.prev /= NoCall
    /\ codec.prev.roomID = "r2" /\ codec.roomID = "r2"
    /\ codec.prev.plain = <<"hi", "yo">> /\ codec.plain = <<"yo">>
    /\ codec.blob /= codec.prev.blob
    /\ NonceOf(codec.blob) = NonceOf(codec.prev.blob)
    /\ codec.out = [err |-> "nil", text |-> <<"yo">>]

\* C12: decrypt of the blob encrypt made from plaintext s for room r, read
\* for the same room r, returns no error and exactly s.
DecryptInvertsEncrypt ==
    (codec.out /= NoOut /\ codec.blob = encrypt(codec.plain, codec.readRoom))
        => codec.out = [err |-> "nil", text |-> codec.plain]

\* C12 witness: a plaintext of two different tokens came back from decrypt.
TwoTokensRoundTrip ==
    /\ codec.out.err = "nil"
    /\ codec.readRoom = "r2"
    /\ Len(codec.plain) >= 2
    /\ codec.plain[1] /= codec.plain[2]
    /\ codec.out.text = codec.plain

\* the blobs that are a sealing of some plaintext under the key of the room
SealedFor(roomID) ==
    {<<"base64">> \o Seal(deriveKey(roomID), n, s) :
        n \in {SubSeq(deriveKey(roomID), 1, NonceSize), OtherNonce}, s \in Plaintexts}

\* C13: for a blob that is not valid base64, is shorter than the nonce, or
\* does not authenticate under the key of the room it is read for, decrypt
\* returns an error and the empty string, never a plaintext.
DecryptRejectsDamaged ==
    (codec.out /= NoOut /\ codec.blob \notin SealedFor(codec.readRoom))
        => codec.out.err /= "nil" /\ codec.out.text = <<>>

\* C13 witness: a blob cut short behind its nonce was read for its own room
\* and failed authentication.
CutBlobRejected ==
    /\ codec.out.err = "failed to decrypt"
    /\ codec.readRoom = codec.roomID
    /\ Len(codec.blob) > NonceSize + 1
    /\ Len(codec.blob) < Len(encrypt(codec.plain, codec.roomID))
    /\ codec.plain /= <<>>

(***************************************************************************)
(* Properties of the message synchronizer                                  *)
(***************************************************************************)
Sent == Ids(msgChan)

\* C1: no store-assigned key is sent on msgChan more than once, also after
\* the dedup set was replaced by an empty one.
NoDuplicateDelivery ==
    \A i, j \in 1..Len(msgChan) : i /= j => msgChan[i].id /= msgChan[j].id

\* C1 witness: a poll of the non-empty room ran after the dedup set was
\* replaced, messages having been delivered before.
DeliveredThenResetThenPolled ==
    /\ resets >= 1
    /\ msgPc = "send"
    /\ processedMsgIDs = {}
    /\ Len(msgChan) >= 2

\* C2: every record pushed after the synchronizer's seeding fetch is
\* eventually sent on msgChan (polls succeeding, consumer receiving).
EveryPushedEventuallySent ==
    \A k \in 1..MaxMsgs :
        (k \in Keys(ChatRoom) /\ msgPc \in {"poll", "send"} /\ k \notin atSeed)
            ~> (k \in Sent)

\* C3: the messages sent on msgChan have non-decreasing timestamps, within a
\* batch and across polls.
SentInTimestampOrder ==
    \A i, j \in 1..Len(msgChan) :
        i < j => msgChan[i].msg.timestamp <= msgChan[j].msg.timestamp

\* C3 witness: one batch held records of different seconds, and both were sent.
TwoSecondsSent ==
    /\ Len(msgChan) >= 2
    /\ msgChan[1].msg.timestamp < msgChan[Len(msgChan)].msg.timestamp
    /\ lastTimestamp < msgChan[1].msg.timestamp

\* C4: a record present when ListenForMessages was called is never sent on
\* msgChan.
ExistingNeverSent ==
    \A i \in 1..Len(msgChan) : msgChan[i].id \notin atStart

\* C7: a sent message carries the stored sender, sender id, color and
\* timestamp; its text is the stored text for a system message, the plaintext
\* for a blob encrypt made for this room, the placeholder otherwise; and no
\* record the poll marked as processed is dropped from the batch.
DecryptFailureContained ==
    /\ \A i \in 1..Len(msgChan) :
          LET m == msgChan[i].msg
              stored == messages[ChatRoom][msgChan[i].id]
          IN  /\ m.sender = stored.sender
              /\ m.senderId = stored.senderId
              /\ m.color = stored.color
              /\ m.timestamp = stored.timestamp
              /\ IF stored.senderId = "system" THEN m.text = stored.text
                 ELSE IF \E t \in Texts : stored.text = encrypt(t, ChatRoom)
                      THEN stored.text = encrypt(m.text, ChatRoom)
                      ELSE m.text = FailedToDecrypt
    /\ processedMsgIDs \subseteq (atSeed \cup Sent \cup Ids(orderedMsgs))

\* C7 witness: within one batch (the watermark not yet advanced past it) a
\* placeholder was sent and then a correctly decrypted message.
PlaceholderThenDecrypted ==
    \E i, j \in 1..Len(msgChan) :
        /\ i < j
        /\ msgChan[i].msg.text = FailedToDecrypt
        /\ msgChan[j].msg.text \in Texts
        /\ lastTimestamp < msgChan[i].msg.timestamp

\* C15: SendMessage by a user other than "system" appends exactly one record,
\* whose stored text is encrypt(text, roomId) and not the plaintext, and its
\* Update then sets the sender's lastActive; the initial load and the
\* synchronizer of the room give that record's text as the plaintext.
SendMessageContract ==
    [][/\ \A u \in Users :
            /\ \A t \in Texts :
                  (SendMessage(u, ChatRoom, t, TRUE) /\ pc'[u] = "SendMessage:Update")
                     => /\ messages'[ChatRoom] = Append(messages[ChatRoom],
                              [sender |-> Username(u), senderId |-> u, color |-> UserColor(u),
                               text |-> encrypt(t, ChatRoom), timestamp |-> now])
                        /\ encrypt(t, ChatRoom) /= t
                        /\ \A r \in RoomIds \ {ChatRoom} : messages'[r] = messages[r]
                        /\ UNCHANGED participants
            /\ (pc[u] = "SendMessage:Update" /\ pc'[u] = "idle" /\ ret'.err = "nil")
                  => /\ u \in DOMAIN participants'[ChatRoom]
                     /\ participants'[ChatRoom][u].lastActive = now
                     /\ UNCHANGED messages
       /\ \A i \in 1..Len(msgChan') :
            LET m == msgChan'[i].msg
            IN  m.senderId \in Users
                  => /\ m.text \in Texts
                     /\ messages'[ChatRoom][msgChan'[i].id] =
                            [m EXCEPT !.text = encrypt(m.text, ChatRoom)]
       /\ \A i \in 1..Len(initial'.msgs) :
            LET m == initial'.msgs[i]
            IN  m.senderId \in Users
                  => /\ m.text \in Texts
                     /\ \E k \in 1..Len(messages'[ChatRoom]) :
                            messages'[ChatRoom][k] =
                               [m EXCEPT !.text = encrypt(m.text, ChatRoom)]]_vars

\* C15 witness: u1's SendMessage returned nil after a tick, its lastActive is
\* that second, and the synchronizer sent the message as typed.
SentAndReadBack ==
    /\ ret = [userID |-> "u1", op |-> "SendMessage", roomID |-> ChatRoom, err |-> "nil"]
    /\ pc["u1"] = "idle"
    /\ participants[ChatRoom]["u1"].lastActive = 2
    /\ \E i \in 1..Len(msgChan) :
          /\ msgChan[i].msg.senderId = "u1"
          /\ msgChan[i].msg.text \in Texts
          /\ messages[ChatRoom][msgChan[i].id].text /= msgChan[i].msg.text
    /\ \E i \in 1..Len(initial.msgs) :
          initial.msgs[i].senderId = "u1" /\ initial.msgs[i].text \in Texts

\* C19: at the end of every successful poll of a non-empty collection the
\* dedup set holds at most ProcessedLimit keys, being replaced by the empty
\* set whenever it held more.
DedupSetBounded ==
    [][MsgFinish
         => /\ Cardinality(processedMsgIDs') <= ProcessedLimit
            /\ Cardinality(processedMsgIDs) > ProcessedLimit => processedMsgIDs' = {}]_vars

\* C19 witness: a poll has ended with the dedup set replaced, the room
\* holding more records than the limit, all of them marked before.
DedupSetReplaced ==
    /\ resets >= 1
    /\ msgPc = "poll"
    /\ processedMsgIDs = {}
    /\ Len(messages[ChatRoom]) > ProcessedLimit
    /\ lastTimestamp = MaxTimestampOf(messages[ChatRoom])

\* a record that is not in the dedup set and not above an initialized watermark
Behind(msgID) ==
    /\ msgID \notin processedMsgIDs
    /\ lastTimestamp > 0
    /\ messages[ChatRoom][msgID].timestamp <= lastTimestamp

\* C30: a record that is not in the dedup set and whose timestamp is at most
\* the watermark, the watermark being above 0, is neither marked seen nor put
\* in the batch nor sent by any step of the listener, and it stays such a
\* record, because the watermark does not decrease; a poll made with the
\* watermark at 0 takes every record that is not in the dedup set.
BehindWatermarkSkipped ==
    [][/\ \A msgID \in Keys(ChatRoom) :
             Behind(msgID)
                => /\ msgID \notin processedMsgIDs'
                   /\ msgID \notin Ids(orderedMsgs')
                   /\ \A i \in (Len(msgChan) + 1)..Len(msgChan') : msgChan'[i].id /= msgID
                   /\ lastTimestamp' >= lastTimestamp
                   /\ messages'[ChatRoom][msgID].timestamp <= lastTimestamp'
       /\ (msgPc = "poll" /\ msgPc' = "send" /\ lastTimestamp = 0)
             => \A msgID \in Keys(ChatRoom) \ processedMsgIDs :
                   /\ msgID \in processedMsgIDs'
                   /\ msgID \in Ids(orderedMsgs')]_vars

\* C30 witness: the second record arrived after the seeding within the second
\* of the watermark, the third one later; a poll has sent the third while the
\* second is still neither seen nor sent.
SkippedBehindLater ==
    /\ msgPc = "poll"
    /\ Len(messages[ChatRoom]) >= 3
    /\ 2 \notin atSeed
    /\ Behind(2)
    /\ 2 \notin Ids(msgChan)
    /\ 3 \in Ids(msgChan)

\* C31: the watermark never decreases; a successful poll of a non-empty
\* collection computes the larger of the previous watermark and the maximum
\* timestamp of the records it fetched, and the watermark is set to it when
\* the batch has been sent; whenever the loop is between two polls the
\* watermark is at least the timestamp of every message sent so far.
WatermarkIsMaximum ==
    [][/\ lastTimestamp' >= lastTimestamp
       /\ (msgPc = "poll" /\ msgPc' = "send")
             => maxTimestamp' = Max(lastTimestamp, MaxTimestampOf(messages[ChatRoom]))
       /\ (msgPc = "send" /\ msgPc' = "poll") => lastTimestamp' = maxTimestamp
       /\ msgPc' = "poll"
             => \A i \in 1..Len(msgChan') : msgChan'[i].msg.timestamp <= lastTimestamp']_vars

\* C31 witness: a poll made with the watermark at 0 took records of two
\* different seconds, sent them, and the watermark is at the later second
WatermarkAtLaterSecond ==
    /\ msgPc = "poll"
    /\ Len(msgChan) >= 2
    /\ \E i, j \in 1..Len(msgChan) : msgChan[i].msg.timestamp < msgChan[j].msg.timestamp
    /\ lastTimestamp = MaxTimestampOf(messages[ChatRoom])
    /\ lastTimestamp > 1

\* C32: the batch of a poll does not depend on the order in which the fetched
\* map is ranged over: every enumeration of the collection gives the batch the
\* poll made, records of one second included, which are in the order of
\* their store keys.
TiesEmittedByKey ==
    [][(msgPc = "poll" /\ msgPc' = "send")
          => /\ \A order \in Enumerations(Keys(ChatRoom)) :
                   SortByTimestamp(Collect(order, 1)) = orderedMsgs'
             /\ \A i, j \in 1..Len(orderedMsgs') :
                   (i < j /\ orderedMsgs'[i].msg.timestamp = orderedMsgs'[j].msg.timestamp)
                      => orderedMsgs'[i].id < orderedMsgs'[j].id]_vars

\* how often a key occurs in a sequence of [id, msg] records
Occurrences(msgID, batch) == Cardinality({i \in 1..Len(batch) : batch[i].id = msgID})

\* C34: a successful poll puts in its batch, once, every fetched record that
\* is not in the dedup set and is above the watermark; while the batch is
\* being sent each record the poll took is either still in the batch or has
\* been sent, once in all; the watermark moves and the next fetch is made
\* only when the batch is empty.
NewRecordsSentWithinPoll ==
    [][/\ (msgPc = "poll" /\ msgPc' = "send")
             => \A msgID \in Keys(ChatRoom) :
                   (msgID \notin processedMsgIDs
                       /\ messages[ChatRoom][msgID].timestamp > lastTimestamp)
                      => /\ Occurrences(msgID, orderedMsgs') = 1
                         /\ msgID \in processedMsgIDs'
       /\ msgPc' = "send"
             => \A msgID \in processedMsgIDs' :
                   messages'[ChatRoom][msgID].timestamp > lastTimestamp'
                      => Occurrences(msgID, orderedMsgs' \o msgChan') = 1
       /\ (msgPc = "send" /\ msgPc' = "send" /\ msgChan' /= msgChan)
             => /\ msgChan' = Append(msgChan, Head(orderedMsgs))
                /\ orderedMsgs' = Tail(orderedMsgs)
       /\ (lastTimestamp' /= lastTimestamp /\ msgPc = "send") => orderedMsgs = <<>>
       /\ msgPc' = "poll" => orderedMsgs' = <<>>]_vars

\* C34 witness: a poll took two records, both have been sent, and the
\* watermark has moved to the later one
BothNewRecordsSent ==
    /\ msgPc = "poll"
    /\ atSeed = {1}
    /\ Len(messages[ChatRoom]) = 3
    /\ Len(msgChan) = 2
    /\ Ids(msgChan) = {2, 3}
    /\ lastTimestamp = messages[ChatRoom][3].timestamp
    /\ processedMsgIDs = {}

\* C35: in a session that made its initial load and then started the message
\* synchronizer, every record of the room that the synchronizer will skip from
\* now on (it is in the dedup set or not above the watermark) was returned by
\* the initial load or has been sent on msgChan.
EveryStoredMessageShown ==
    (msgPc = "poll" /\ initial.err = "nil")
        => \A msgID \in Keys(ChatRoom) :
              Skip(msgID, messages[ChatRoom][msgID])
                 => \/ msgID \in Ids(msgChan)
                    \/ \E i \in 1..Len(initial.msgs) :
                          initial.msgs[i] = decryptMessage(messages[ChatRoom][msgID], ChatRoom)

\* C36: Update appends the messages to m.messages in the order in which the
\* synchronizer sent them on msgChan.
ShownInSendOrder ==
    \A i, j \in 1..Len(ui.shown) : i < j => ui.shown[i] < ui.shown[j]

\* C37: every participant record in the store has the name and the color a
\* join or a create wrote: no UpdateActivity and no SendMessage made after
\* LeaveRoom deleted the user's record puts a record back under
\* participants/userID.
EveryRecordNamed ==
    \A r \in RoomIds : \A u \in DOMAIN participants[r] :
        /\ participants[r][u].name = Username(u)
        /\ participants[r][u].color = UserColor(u)

\* C38: a store call of a lifecycle operation that fails ends the operation
\* with its error and leaves the store as the earlier steps made it: the
\* failed Push of LeaveRoom leaves the participant record, the failed Push of
\* SendMessage leaves lastActive, the failed Push of JoinRoom leaves the
\* participant record its Set wrote.
FailedStepEndsOperation ==
    [][\A u \in Users :
          /\ LeaveRoomPush(u, FALSE)
                => /\ pc'[u] = "idle"
                   /\ ret' = [userID |-> u, op |-> "LeaveRoom", roomID |-> local[u].roomID,
                              err |-> "failed to add system message"]
                   /\ UNCHANGED storeVars
          /\ (\E r \in RoomIds, t \in Texts : SendMessage(u, r, t, FALSE))
                => /\ pc'[u] = "idle"
                   /\ ret'.userID = u /\ ret'.op = "SendMessage"
                   /\ ret'.err = "failed to send message"
                   /\ UNCHANGED storeVars
          /\ JoinRoomPush(u, FALSE)
                => /\ pc'[u] = "idle"
                   /\ ret' = [userID |-> u, op |-> "JoinRoom", roomID |-> local[u].roomID,
                              err |-> "failed to add system message"]
                   /\ UNCHANGED storeVars
                   /\ u \in DOMAIN participants'[local[u].roomID]
                   /\ participants'[local[u].roomID][u].name = Username(u)
          /\ (pc[u] /= "idle" /\ pc'[u] = "idle" /\ ret'.err /= "nil")
                => UNCHANGED storeVars]_vars

\* C38 witness: Bob joined, his LeaveRoom failed at its Push: no "left"
\* message was stored and his participant record is still there
LeaveFailedRecordKept ==
    /\ ret = [userID |-> "u2", op |-> "LeaveRoom", roomID |-> ChatRoom,
              err |-> "failed to add system message"]
    /\ pc["u2"] = "idle"
    /\ Len(messages[ChatRoom]) = 2
    /\ messages[ChatRoom][2].text = <<"Bob", " joined the room">>
    /\ "u2" \in DOMAIN participants[ChatRoom]
    /\ participants[ChatRoom]["u2"].name = "Bob"

\* C16: a poll whose fetch fails leaves the watermark, the dedup set and the
\* channel as they were and the loop at its next poll; the first successful
\* poll after failed ones collects every record not in the dedup set whose
\* timestamp exceeds the watermark, and the whole batch is sent before the
\* poll after it.
FailedPollRetried ==
    [][/\ MsgPoll(FALSE, <<>>)
            => /\ UNCHANGED <<lastTimestamp, processedMsgIDs, msgChan, orderedMsgs>>
               /\ msgPc' = "poll"
       /\ (outage /\ ~outage')
            => /\ msgPc = "poll" /\ msgPc' = "send"
               /\ UNCHANGED <<lastTimestamp, messages>>
               /\ \A k \in Keys(ChatRoom) :
                     (k \notin processedMsgIDs
                         /\ messages[ChatRoom][k].timestamp > lastTimestamp)
                       => k \in Ids(orderedMsgs')
       /\ msgPc' = "poll" => orderedMsgs' = <<>>]_vars

\* C16 witness: the last poll failed, the loop is at its next poll, and a
\* record above the watermark, stored after the seeding fetch, waits in the room.
PendingDuringOutage ==
    /\ outage
    /\ msgPc = "poll"
    /\ lastTimestamp > 0
    /\ \E k \in Keys(ChatRoom) :
          /\ k \notin processedMsgIDs
          /\ k \notin atSeed
          /\ messages[ChatRoom][k].timestamp > lastTimestamp

\* C17: a poll that reaches the store collects every well-formed record
\* stored after the seeding fetch that is not in the dedup set and is above
\* the watermark, whether or not the room also holds a malformed record.
MalformedRecordSkippedAlone ==
    [][\A order \in Enumerations(Keys(ChatRoom)) :
          (msgPc = "poll" /\ MsgPoll(TRUE, order))
             => \A k \in Keys(ChatRoom) :
                   (/\ Decodable(messages[ChatRoom][k])
                    /\ k \notin atSeed
                    /\ k \notin processedMsgIDs
                    /\ messages[ChatRoom][k].timestamp > lastTimestamp)
                      => k \in Ids(orderedMsgs')]_vars

(***************************************************************************)
(* Properties of the presence synchronizer                                 *)
(***************************************************************************)
\* C8: every snapshot sent on partChan, and the one being sent, equals the
\* participant mapping the store held at the poll that produced it.
SnapshotIsFullSet ==
    /\ partChan.snapshot = partChan.store
    /\ partPc = "send" => partPending.snapshot = partPending.store

\* C8 witness: a second snapshot was sent, holding two participants of which
\* one was not active since the first.
FullSnapshotSentTwice ==
    /\ partChan.n >= 2
    /\ \E u, v \in DOMAIN partChan.snapshot :
          partChan.snapshot[u].lastActive < partChan.snapshot[v].lastActive

\* a successful presence poll emitting a snapshot with the current lastActive
\* of every participant written since the previous poll
EmitsWritten ==
    /\ partPc' = "send"
    /\ \A u \in written :
          /\ u \in DOMAIN partPending'.snapshot
          /\ partPending'.snapshot[u].lastActive = participants[ChatRoom][u].lastActive

\* C9 as claimed: the successful presence poll that follows any write that
\* changed a participant record emits a snapshot with the written lastActive.
NextPollEmitsAnyWrite ==
    [][(PartPoll(TRUE) /\ written /= {}) => EmitsWritten]_vars

\* C9 amended: the successful presence poll that follows a write whose
\* lastActive exceeds the recorded maximum (or any write while the recorded
\* maximum is 0) emits a snapshot with the lastActive of every participant
\* written since the previous poll.
NextPollEmitsNewerWrite ==
    [][(/\ PartPoll(TRUE)
        /\ written /= {}
        /\ \/ lastUpdate = 0
           \/ \E u \in written : participants[ChatRoom][u].lastActive > lastUpdate)
       => EmitsWritten]_vars

\* C9 witness: a snapshot was sent before, and a poll found newer activity and
\* is sending the next one.
NewerWriteEmitted ==
    /\ partPc = "send"
    /\ partChan.n >= 1
    /\ MaxLastActive(partChan.snapshot) > 0
    /\ lastUpdate > MaxLastActive(partChan.snapshot)

\* C20: a successful presence poll emits the whole participant mapping if
\* its maximum lastActive exceeds the recorded maximum or if no snapshot was
\* emitted before; once a snapshot is emitted the recorded maximum is the
\* maximum lastActive of the last one emitted.
EmitsOnNewerOrFirst ==
    [][/\ (/\ PartPoll(TRUE)
           /\ \/ MaxLastActive(participants[ChatRoom]) > lastUpdate
              \/ partChan.n = 0)
          => /\ partPc' = "send"
             /\ partPending'.snapshot = participants[ChatRoom]
             /\ lastUpdate' = MaxLastActive(partPending'.snapshot)
       /\ partPc' = "send" => lastUpdate' = MaxLastActive(partPending'.snapshot)
       /\ (partPc' = "poll" /\ partChan'.n >= 1)
            => lastUpdate' = MaxLastActive(partChan'.snapshot)]_vars

\* C20 witness: two snapshots were emitted, the second for activity of a
\* later second, and the recorded maximum is that second.
SecondSnapshotRecorded ==
    /\ partPc = "poll"
    /\ partChan.n >= 2
    /\ lastUpdate = 2
    /\ MaxLastActive(partChan.snapshot) = 2
    /\ Cardinality(DOMAIN partChan.snapshot) = 2

\* C22: UpdateActivity(roomID, userID) that returns nil sets lastActive of
\* that user's participant record to the current second and changes nothing
\* else: the record's name and color, every other participant record of every
\* room and every message record are as before; a failed call changes nothing.
UpdateActivityOnlyLastActive ==
    [][\A u \in Users, r \in RoomIds :
          (\E ok \in BOOLEAN : UpdateActivity(u, r, ok))
             => /\ UNCHANGED messages
                /\ \A q \in RoomIds \ {r} : participants'[q] = participants[q]
                /\ \A v \in DOMAIN participants[r] \ {u} :
                      /\ v \in DOMAIN participants'[r]
                      /\ participants'[r][v] = participants[r][v]
                /\ DOMAIN participants'[r] \subseteq DOMAIN participants[r] \cup {u}
                /\ u \in DOMAIN participants[r]
                      => /\ u \in DOMAIN participants'[r]
                         /\ participants'[r][u].name = participants[r][u].name
                         /\ participants'[r][u].color = participants[r][u].color
                         /\ participants'[r][u].lastActive \in {now, participants[r][u].lastActive}
                /\ ret'.err = "nil"
                      => /\ u \in DOMAIN participants'[r]
                         /\ participants'[r][u].lastActive = now
                /\ ret'.err /= "nil" => UNCHANGED participants]_vars

\* C22 witness: Bob's UpdateActivity returned nil in a later second than his
\* JoinRoom, his record keeping name and color beside Alice's older record.
ActivityUpdatedBesideOther ==
    /\ ret = [userID |-> "u2", op |-> "UpdateActivity", roomID |-> ChatRoom, err |-> "nil"]
    /\ DOMAIN participants[ChatRoom] = {"u1", "u2"}
    /\ participants[ChatRoom]["u2"] = Participant(Username("u2"), UserColor("u2"), 2)
    /\ participants[ChatRoom]["u1"] = Participant(Username("u1"), UserColor("u1"), 1)
    /\ \E k \in Keys(ChatRoom) :
          /\ messages[ChatRoom][k].text = <<Username("u2"), " joined the room">>
          /\ messages[ChatRoom][k].timestamp = 1

\* C23: CheckRoomExists(roomID) whose Get succeeds returns true exactly when
\* the store holds at least one participant record or one message record
\* under the room, whoever is still a participant; when the Get fails it
\* returns false with an error.
RoomExistsIffData ==
    [][\A u \in Users :
          (main[u].at = "check" /\ \E ok \in BOOLEAN : CheckRoomExists(u, main[u].roomID, ok))
             => LET r == main[u].roomID
                IN  /\ ret'.op = "CheckRoomExists" /\ ret'.roomID = r
                    /\ ret'.err = "nil"
                          => main'[u].roomExists =
                                (Len(messages[r]) >= 1 \/ Cardinality(DOMAIN participants[r]) >= 1)
                    /\ ret'.err /= "nil" => main'[u].roomExists = FALSE
                    /\ UNCHANGED storeVars]_vars

\* C23 witness: every participant has left ChatRoom, its messages remain, and
\* the check of a client started afterwards returned true.
EmptiedRoomStillExists ==
    /\ DOMAIN participants[ChatRoom] = {}
    /\ \E k \in Keys(ChatRoom) : messages[ChatRoom][k].text = <<Username("u1"), " left the room">>
    /\ main["u1"].at = "exited"
    /\ main["u2"].roomExists
    /\ main["u2"].at = "ui"
    /\ ret = [userID |-> "u2", op |-> "CheckRoomExists", roomID |-> ChatRoom, err |-> "nil"]

\* C21: a successful presence poll that follows the removal of a
\* participant, a snapshot having been emitted before and no lastActive in the
\* room exceeding the recorded maximum, emits nothing, whatever the recorded
\* maximum is, 0 included.
RemovalAloneNeverEmitted ==
    [][(/\ PartPoll(TRUE)
        /\ removed /= {}
        /\ partChan.n >= 1
        /\ MaxLastActive(participants[ChatRoom]) <= lastUpdate)
       => UNCHANGED <<partPc, lastUpdate, partPending, partChan>>]_vars

\* the presence goroutine can take its next step: poll, or hand its snapshot over
PresenceCanStep ==
    /\ partPc = "poll" => ENABLED PartPoll(TRUE)
    /\ partPc = "send" => ENABLED PartSend

\* the message goroutine can take its next step: fetch, hand a message over, or
\* finish the poll
MessagesCanStep ==
    /\ msgPc = "seed" => ENABLED MsgSeed(TRUE)
    /\ msgPc = "poll" => ENABLED (\E order \in Enumerations(Keys(ChatRoom)) : MsgPoll(TRUE, order))
    /\ (msgPc = "send" /\ orderedMsgs /= <<>>) => ENABLED MsgSend
    /\ (msgPc = "send" /\ orderedMsgs = <<>>) => ENABLED MsgFinish

\* C27: while the message goroutine waits to send on msgChan the presence
\* goroutine can poll and can send its snapshot, and while the presence
\* goroutine waits to send on partChan the message goroutine can poll, send
\* and finish: neither waits for the other's channel.
SynchronizersIndependent ==
    /\ (msgPc = "send" /\ orderedMsgs /= <<>>) => PresenceCanStep
    /\ partPc = "send" => MessagesCanStep

\* C27 witness: no message was ever received from msgChan, a batch is waiting
\* to be sent on it, and the presence goroutine has sent a snapshot with u1's
\* activity of a later second and is sending the next.
SnapshotsPastBlockedMessages ==
    /\ msgPc = "send" /\ orderedMsgs /= <<>>
    /\ msgChan = <<>>
    /\ partChan.n >= 1
    /\ partPc = "send"
    /\ partPending.snapshot["u1"].lastActive > partChan.snapshot["u1"].lastActive

(***************************************************************************)
(* Properties of the room lifecycle operations                             *)
(***************************************************************************)
\* C5: LeaveRoom called when the user has no participant record in the room
\* returns an error at once and leaves the store unchanged.
LeaveRoomWithoutRecordFails ==
    [][\A u \in Users, r \in RoomIds :
          ((\E ok \in BOOLEAN : LeaveRoom(u, r, ok)) /\ u \notin DOMAIN participants[r])
             => /\ pc'[u] = "idle"
                /\ ret'.userID = u /\ ret'.op = "LeaveRoom" /\ ret'.err /= "nil"
                /\ UNCHANGED storeVars]_vars

\* C6: JoinRoom on a room with no data returns "room does not exist" and
\* leaves the store unchanged; on a room with data its Set writes exactly the
\* caller's record at participants/userID, replacing an existing one, and its
\* Push then appends exactly the message "<name> joined the room" to that room.
JoinRoomContract ==
    [][\A u \in Users, r \in RoomIds :
          /\ ((\E ok \in BOOLEAN : JoinRoom(u, r, ok))
                /\ messages[r] = <<>> /\ DOMAIN participants[r] = {})
               => /\ pc'[u] = "idle"
                  /\ ret' = [userID |-> u, op |-> "JoinRoom", roomID |-> r,
                             err |-> "room does not exist"]
                  /\ UNCHANGED storeVars
          /\ (pc[u] = "JoinRoom:Set" /\ local[u].roomID = r /\ pc'[u] = "JoinRoom:Push")
               => /\ DOMAIN participants'[r] = DOMAIN participants[r] \cup {u}
                  /\ participants'[r][u] =
                        [name |-> Username(u), color |-> UserColor(u), lastActive |-> now]
                  /\ \A v \in DOMAIN participants[r] \ {u} :
                        participants'[r][v] = participants[r][v]
                  /\ \A q \in RoomIds \ {r} : participants'[q] = participants[q]
                  /\ UNCHANGED messages
          /\ (pc[u] = "JoinRoom:Push" /\ local[u].roomID = r /\ pc'[u] = "idle"
                /\ ret'.err = "nil")
               => /\ Len(messages'[r]) = Len(messages[r]) + 1
                  /\ SubSeq(messages'[r], 1, Len(messages[r])) = messages[r]
                  /\ messages'[r][Len(messages'[r])] =
                        [sender |-> "System", senderId |-> "system", color |-> "#888888",
                         text |-> <<Username(u), " joined the room">>, timestamp |-> now]
                  /\ \A q \in RoomIds \ {r} : messages'[q] = messages[q]
                  /\ UNCHANGED participants]_vars

\* C6 witness: u1 joined the room it created, its record replaced by a later
\* one, and then u2's JoinRoom of the room without data was refused.
JoinedAndRefused ==
    /\ ret = [userID |-> "u2", op |-> "JoinRoom", roomID |-> "r2",
              err |-> "room does not exist"]
    /\ ~RoomHasData("r2")
    /\ Len(messages["r1"]) = 2
    /\ messages["r1"][1].text = <<"Alice", " created the room">>
    /\ messages["r1"][2].text = <<"Alice", " joined the room">>
    /\ "u1" \in DOMAIN participants["r1"]
    /\ participants["r1"]["u1"].lastActive > messages["r1"][1].timestamp

\* the entry the initial load owes for a stored record: a system message as
\* stored, a blob encrypt made for the room with its plaintext, any other
\* blob with the placeholder
Loaded(record, roomID) ==
    IF record.senderId = "system" THEN record
    ELSE IF \E t \in Texts : record.text = encrypt(t, roomID)
         THEN [record EXCEPT !.text = CHOOSE t \in Texts : record.text = encrypt(t, roomID)]
         ELSE [record EXCEPT !.text = FailedToDecrypt]

\* C24: GetInitialMessages whose fetch succeeds returns no error and one
\* entry for every message record of the room, none left out or doubled, each
\* decrypted (a system message as stored, an undecryptable text replaced by
\* the placeholder), in non-decreasing timestamp order; for a room without
\* messages it returns the empty list and no error.
InitialLoadComplete ==
    [][(initial' /= initial /\ ~GetInitialMessages(ChatRoom, FALSE, <<>>))
         => /\ initial'.err = "nil"
            /\ UNCHANGED messages
            /\ Len(initial'.msgs) = Len(messages[ChatRoom])
            /\ \E perm \in Enumerations(Keys(ChatRoom)) :
                  \A i \in 1..Len(perm) :
                      initial'.msgs[i] = Loaded(messages[ChatRoom][perm[i]], ChatRoom)
            /\ \A i, j \in 1..Len(initial'.msgs) :
                  i < j => initial'.msgs[i].timestamp <= initial'.msgs[j].timestamp
            /\ messages[ChatRoom] = <<>> => initial'.msgs = <<>>]_vars

\* C24 witness: a load returned three entries of two different seconds: a
\* system message, a decrypted text and a placeholder.
LoadedThreeKinds ==
    /\ initial.err = "nil"
    /\ Len(initial.msgs) = 3
    /\ Len(messages[ChatRoom]) = 3
    /\ initial.msgs[1].timestamp < initial.msgs[3].timestamp
    /\ \E i \in 1..3 : initial.msgs[i].senderId = "system"
    /\ \E i \in 1..3 : initial.msgs[i].text \in Texts
    /\ \E i \in 1..3 : initial.msgs[i].text = FailedToDecrypt

\* C25: JoinRoom of a room that holds data, whose Get of the room fails for
\* connectivity, returns an error other than the "room does not exist" it
\* returns for a room without data.
JoinRoomFailureDistinct ==
    [][\A u \in Users, r \in RoomIds :
          (RoomHasData(r) /\ JoinRoom(u, r, FALSE))
             => ret'.err \notin {"nil", "room does not exist"}]_vars

\* C26: CreateRoomWithID makes no existence check: called by a process that
\* saw CheckRoomExists return false, it writes the caller's participant record
\* over whatever record is at participants/userID and appends its created
\* message, also when the room has data by then, and returns nil; the records
\* of other userIDs stay, so of two racing processes both succeed, and the
\* record of the first is overwritten when both have the same userID.
CreateRoomWithIDUnchecked ==
    [][\A u \in Racers :
          LET r == main[u].roomID
          IN  /\ (main[u].at = "create" /\ pc[u] = "idle" /\ pc'[u] /= "idle")
                    => /\ ~main[u].roomExists
                       /\ pc'[u] = "CreateRoomWithID:Push"
                       /\ participants'[r][UserID(u)] =
                             [name |-> Username(u), color |-> UserColor(u), lastActive |-> now]
                       /\ \A v \in DOMAIN participants[r] \ {UserID(u)} :
                             /\ v \in DOMAIN participants'[r]
                             /\ participants'[r][v] = participants[r][v]
                       /\ UNCHANGED messages
              /\ (pc[u] = "CreateRoomWithID:Push" /\ pc'[u] = "idle")
                    => /\ ret' = [userID |-> UserID(u), op |-> "CreateRoomWithID",
                                  roomID |-> r, err |-> "nil"]
                       /\ main'[u].at = "ui"
                       /\ messages'[r] = Append(messages[r],
                             SystemMessage(Username(u), " created the room", now))
                       /\ UNCHANGED participants]_vars

\* C26 witness: two processes of one userID both saw the room absent and both
\* created it without error; the room holds both created messages and one
\* participant record, that of the later Set.
RaceOverwroteCreator ==
    /\ main["u1"].at = "ui" /\ ~main["u1"].roomExists
    /\ main["u1b"].at = "ui" /\ ~main["u1b"].roomExists
    /\ Len(messages[ChatRoom]) = 2
    /\ \A k \in 1..2 : messages[ChatRoom][k].text = <<Username("u1"), " created the room">>
    /\ messages[ChatRoom][1].timestamp = 1
    /\ DOMAIN participants[ChatRoom] = {"u1"}
    /\ participants[ChatRoom]["u1"].lastActive = 2

\* C28: LeaveRoom of a user who has a participant record reads the record's
\* name, then appends exactly the system message "<name> left the room" while
\* the record is still there, then deletes the record and nothing else; when it
\* returns nil the record is absent, and the call has appended one message.
LeaveRoomPushThenDelete ==
    [][\A u \in Users, r \in RoomIds :
          /\ ((\E ok \in BOOLEAN : LeaveRoom(u, r, ok))
                 /\ u \in DOMAIN participants[r] /\ pc'[u] /= "idle")
               => /\ pc'[u] = "LeaveRoom:Push"
                  /\ local'[u].name = participants[r][u].name
                  /\ UNCHANGED storeVars
          /\ (LeaveRoomPush(u, TRUE) /\ local[u].roomID = r)
               => /\ pc'[u] = "LeaveRoom:Delete"
                  /\ messages'[r] = Append(messages[r],
                        [sender |-> "System", senderId |-> "system", color |-> "#888888",
                         text |-> <<local[u].name, " left the room">>, timestamp |-> now])
                  /\ \A q \in RoomIds \ {r} : messages'[q] = messages[q]
                  /\ UNCHANGED participants
          /\ (LeaveRoomDelete(u, TRUE) /\ local[u].roomID = r)
               => /\ ret' = [userID |-> u, op |-> "LeaveRoom", roomID |-> r, err |-> "nil"]
                  /\ u \notin DOMAIN participants'[r]
                  /\ \A v \in DOMAIN participants[r] \ {u} :
                        v \in DOMAIN participants'[r] /\ participants'[r][v] = participants[r][v]
                  /\ \A q \in RoomIds \ {r} : participants'[q] = participants[q]
                  /\ UNCHANGED messages
          /\ (ret'.op = "LeaveRoom" /\ ret'.err = "nil" /\ ret' /= ret)
               => pc[ret'.userID] = "LeaveRoom:Delete"]_vars

\* C28 witness: Bob joined the room Alice created and left it without error:
\* the messages end with "Bob left the room", his record is gone, Alice's stays.
BobLeftAfterJoining ==
    /\ ret = [userID |-> "u2", op |-> "LeaveRoom", roomID |-> "r1", err |-> "nil"]
    /\ Len(messages["r1"]) = 3
    /\ messages["r1"][2].text = <<Username("u2"), " joined the room">>
    /\ messages["r1"][3].text = <<Username("u2"), " left the room">>
    /\ DOMAIN participants["r1"] = {"u1"}

\* the calls of main that can fail: the existence check, the creation of the
\* room and the join made by NewChatUI
SetupFails(u) ==
    \/ main[u].at = "check" /\ CheckRoomExists(u, main[u].roomID, FALSE)
    \/ main[u].at = "create" /\ CreateRoomWithID(u, main[u].roomID, FALSE)
    \/ main[u].at = "create" /\ CreateRoomWithIDPush(u, FALSE)
    \/ main[u].at = "newroom" /\ \E r \in RoomIds : CreateRoom(u, r, FALSE)
    \/ main[u].at = "newroom" /\ CreateRoomPush(u, FALSE)
    \/ main[u].at = "ui" /\ \E ok \in BOOLEAN : JoinRoom(u, main[u].roomID, ok) /\ pc'[u] = "idle"
    \/ main[u].at = "ui" /\ JoinRoomSet(u, FALSE)
    \/ main[u].at = "ui" /\ JoinRoomPush(u, FALSE)

\* C29: main started with a room identifier for which CheckRoomExists
\* returned false exits with code 0 when the creation is declined, having
\* written nothing to the store; it exits with code 1 when the existence
\* check, the creation of the room or the join fails.
ExitCodes ==
    [][\A u \in Users :
          /\ Prompt(u, FALSE)
                => /\ ~main[u].roomExists
                   /\ main'[u].at = "exited" /\ main'[u].exit = 0
          /\ ((\E r \in RoomIds : MainStart(u, r))
                 \/ (main[u].at = "check" /\ \E ok \in BOOLEAN : CheckRoomExists(u, main[u].roomID, ok))
                 \/ (\E yes \in BOOLEAN : Prompt(u, yes)))
                => UNCHANGED storeVars
          /\ SetupFails(u) => main'[u].at = "exited" /\ main'[u].exit = 1
          /\ main[u].at = "exited" => main'[u] = main[u]]_vars

\* C29 witness: Alice declined to create the absent room and her process
\* exited with 0; Bob then agreed, his CreateRoomWithID failed at its Push and
\* his process exited with 1: the store holds Bob's record only.
DeclinedAndFailed ==
    /\ main["u1"] = [at |-> "exited", roomID |-> ChatRoom, roomExists |-> FALSE, exit |-> 0]
    /\ main["u2"] = [at |-> "exited", roomID |-> ChatRoom, roomExists |-> FALSE, exit |-> 1]
    /\ ret = [userID |-> "u2", op |-> "CreateRoomWithID", roomID |-> ChatRoom,
              err |-> "failed to add system message"]
    /\ messages[ChatRoom] = <<>>
    /\ DOMAIN participants[ChatRoom] = {"u2"}

\* C11: when the room holds exactly "<A> created the room" pushed by
\* CreateRoom and then "<B> joined the room" pushed by a JoinRoom that returned
\* nil, GetInitialMessages returns exactly these two system messages, the
\* created one first, whatever the second each was stamped in.
CreatedBeforeJoinedOnLoad ==
    [][\A order \in Enumerations(Keys(ChatRoom)) :
          (/\ GetInitialMessages(ChatRoom, TRUE, order)
           /\ ret = [userID |-> "u2", op |-> "JoinRoom", roomID |-> ChatRoom, err |-> "nil"]
           /\ Len(messages[ChatRoom]) = 2
           /\ messages[ChatRoom][1].text = <<Username("u1"), " created the room">>
           /\ messages[ChatRoom][2].text = <<Username("u2"), " joined the room">>)
             => /\ Len(initial'.msgs) = 2
                /\ initial'.msgs[1].senderId = "system"
                /\ initial'.msgs[1].text = <<Username("u1"), " created the room">>
                /\ initial'.msgs[2].senderId = "system"
                /\ initial'.msgs[2].text = <<Username("u2"), " joined the room">>]_vars

\* C14: every stored record with sender id "system" holds plaintext (no output
\* of encrypt), and the read path returns its text as stored.
SystemRecordsPlaintext ==
    \A r \in RoomIds : \A k \in Keys(r) :
        messages[r][k].senderId = "system"
            => /\ \A t \in Texts : messages[r][k].text /= encrypt(t, r)
               /\ decryptMessage(messages[r][k], r).text = messages[r][k].text

\* C18: in every step of every operation, each key of each room's message
\* collection stays in it, its record unchanged.
StoredMessagesImmutable ==
    [][\A r \in RoomIds :
          /\ Len(messages'[r]) >= Len(messages[r])
          /\ \A k \in Keys(r) : messages'[r][k] = messages[r][k]]_vars

\* C18 witness: the room was created, joined, loaded and left, the loop has
\* sent the leave message, and the first two records are as they were pushed.
AllWritersActed ==
    /\ Len(messages[ChatRoom]) >= 3
    /\ messages[ChatRoom][1].text = <<Username("u1"), " created the room">>
    /\ messages[ChatRoom][2].text = <<Username("u1"), " joined the room">>
    /\ messages[ChatRoom][3].text = <<Username("u1"), " left the room">>
    /\ "u1" \notin DOMAIN participants[ChatRoom]
    /\ pc["u1"] = "idle"
    /\ Len(initial.msgs) = 2
    /\ \E i \in 1..Len(msgChan) : msgChan[i].id = 3

\* C10: when CreateRoom returns roomID without error, that room's participant
\* collection holds exactly the caller's record and its message collection
\* holds "<name> created the room".
CreateRoomSoleParticipant ==
    [][\A u \in Users :
          (pc[u] = "CreateRoom:Push" /\ pc'[u] = "idle" /\ ret'.err = "nil")
             => LET R == ret'.roomID
                IN  /\ DOMAIN participants'[R] = {u}
                    /\ \E i \in 1..Len(messages'[R]) :
                          /\ messages'[R][i].senderId = "system"
                          /\ messages'[R][i].text = <<Username(u), " created the room">>]_vars

====
